---- MODULE Spec2Model ----
(***************************************************************************)
(* Model of the anthropometric measurement engine of RevanDiktas/tryonline *)
(* (avatar-creation/4D-Humans-clean): scale calibration, adaptive landmark *)
(* search, the three circumference estimators and the measurement          *)
(* assembly of extract_measurements_adaptive.py, together with the         *)
(* fixed-ratio variants of fix_measurements_and_pose.py and                *)
(* extract_accurate_measurements.py.                                       *)
(*                                                                         *)
(* Numbers.  Coordinates and heights are exact rationals <<n, d>> (d > 0,  *)
(* lowest terms).  The irrational results of the estimators are kept in    *)
(* closed form: pi * c, pi * (p - sqrt(q)), and a sum of square roots of   *)
(* squared edge lengths.  Next to the exact values the state carries, in   *)
(* `fp`, the images of the calibration under binary floating point with    *)
(* round-to-nearest-even at a reduced mantissa width (MantBits).           *)
(***************************************************************************)
EXTENDS Integers, Sequences, FiniteSets, TLC

----------------------------------------------------------------------------
(* Exact rational arithmetic.  A denominator of 0 stands for the values    *)
(* numpy produces where a real number does not exist: <<1, 0>> is inf,     *)
(* <<-1, 0>> is -inf and <<0, 0>> is nan (a division by zero in numpy      *)
(* warns and returns one of these; it does not raise).                     *)

Abs(n) == IF n < 0 THEN -n ELSE n

RECURSIVE GCD(_, _)
GCD(a, b) == IF b = 0 THEN a ELSE GCD(b, a % b)

Rat(n, d) ==
  LET s == IF d < 0 THEN -1 ELSE 1
      g == GCD(Abs(n), Abs(d))
  IN  <<(s * n) \div g, (s * d) \div g>>

Int2Rat(n) == <<n, 1>>
Zero == <<0, 1>>
NaN == <<0, 0>>
IsFinite(a) == a[2] # 0
Sign(n) == IF n < 0 THEN -1 ELSE IF n > 0 THEN 1 ELSE 0

RAdd(a, b) ==
  LET g == GCD(a[2], b[2])
  IN  IF IsFinite(a) /\ IsFinite(b)
      THEN Rat(a[1] * (b[2] \div g) + b[1] * (a[2] \div g), (a[2] \div g) * b[2])
      ELSE IF a = NaN \/ b = NaN THEN NaN
      ELSE IF IsFinite(a) THEN b
      ELSE IF IsFinite(b) \/ a = b THEN a
      ELSE NaN

RNeg(a) == <<-a[1], a[2]>>
RSub(a, b) == RAdd(a, RNeg(b))
RAbs(a) == <<Abs(a[1]), a[2]>>

RMul(a, b) ==
  LET g1 == GCD(Abs(a[1]), b[2])
      g2 == GCD(Abs(b[1]), a[2])
  IN  IF ~IsFinite(a) \/ ~IsFinite(b) THEN <<Sign(a[1]) * Sign(b[1]), 0>>
      ELSE IF a[1] = 0 \/ b[1] = 0 THEN Zero
      ELSE <<(a[1] \div g1) * (b[1] \div g2), (a[2] \div g2) * (b[2] \div g1)>>

RInv(a) == IF a[1] < 0 THEN <<-a[2], -a[1]>> ELSE <<a[2], a[1]>>
RDiv(a, b) == RMul(a, RInv(b))

\* every comparison with nan is false
RLt(a, b) ==
  LET g == GCD(a[2], b[2])
  IN  IF IsFinite(a) /\ IsFinite(b)
      THEN a[1] * (b[2] \div g) < b[1] * (a[2] \div g)
      ELSE a # NaN /\ b # NaN /\ a # b /\ (a = <<-1, 0>> \/ b = <<1, 0>>)

RLe(a, b) == a # NaN /\ (a = b \/ RLt(a, b))

\* ndarray.max() and .min() return nan when the array holds a nan
RMaxOf(S) == IF NaN \in S THEN NaN ELSE CHOOSE m \in S : \A x \in S : RLe(x, m)
RMinOf(S) == IF NaN \in S THEN NaN ELSE CHOOSE m \in S : \A x \in S : RLe(m, x)

----------------------------------------------------------------------------
(* Vertex arrays: a sequence of <<x, y, z>>, y the height axis *)

XsOf(V, I) == {V[i][1] : i \in I}
YsOf(V, I) == {V[i][2] : i \in I}
ZsOf(V, I) == {V[i][3] : i \in I}

\* vertices[:, 1].min(), .max()
y_min_of(V) == RMinOf(YsOf(V, DOMAIN V))
y_max_of(V) == RMaxOf(YsOf(V, DOMAIN V))
y_range_of(V) == RSub(y_max_of(V), y_min_of(V))

\* width = slice_verts[:, 0].max() - slice_verts[:, 0].min()
WidthOf(V, I) == RSub(RMaxOf(XsOf(V, I)), RMinOf(XsOf(V, I)))
\* depth = xz_points[:, 1].max() - xz_points[:, 1].min()
DepthOf(V, I) == RSub(RMaxOf(ZsOf(V, I)), RMinOf(ZsOf(V, I)))

\* mask = np.abs(vertices[:, 1] - y) < thickness : the indices it keeps.
\* The test is evaluated once per distinct height value of the array.
SliceMask(V, y, thickness) ==
  LET near == {l \in YsOf(V, DOMAIN V) : RLt(RAbs(RSub(l, y)), thickness)}
  IN  {i \in DOMAIN V : V[i][2] \in near}

\* vertices * scale_factor
ScaleVertices(V, s) ==
  [i \in DOMAIN V |-> <<RMul(V[i][1], s), RMul(V[i][2], s), RMul(V[i][3], s)>>]

----------------------------------------------------------------------------
(* Cross-section estimators, extract_measurements_adaptive.py:14-80 *)

\* `if len(slice_verts) < 10: return None`
MinSliceVerts == 10

\* the unit conversion `* 100` of the estimators and of the scale factor
CmPerUnit == 100

None == [kind |-> "None"]

\* pi * c
PiTimes(c) == [kind |-> "pi_lin", c |-> c]
\* pi * (p - sqrt(q))
PiRamanujan(p, q) == [kind |-> "ramanujan", p |-> p, q |-> q]
\* the sum of sqrt(l) over a bag of squared lengths l
SumOfRoots(bag) == [kind |-> "perimeter", sq |-> bag]

\* Python truthiness of an estimator's result: None and 0.0 are falsy
IsNone(r) == r.kind = "None"
IsZeroCirc(r) ==
  \/ r.kind = "pi_lin" /\ r.c = Zero
  \/ r.kind = "ramanujan" /\ RMul(r.p, r.p) = r.q
  \/ r.kind = "perimeter" /\ DOMAIN r.sq = {}
CircTruthy(r) == ~IsNone(r) /\ ~IsZeroCirc(r)

\* xz_points = slice_verts[:, [0, 2]]
XZPoints(V, I) == {<<V[i][1], V[i][3]>> : i \in I}

Cross(o, a, b) ==
  RSub(RMul(RSub(a[1], o[1]), RSub(b[2], o[2])),
       RMul(RSub(a[2], o[2]), RSub(b[1], o[1])))

Dot(o, a, b) ==
  RAdd(RMul(RSub(a[1], o[1]), RSub(b[1], o[1])),
       RMul(RSub(a[2], o[2]), RSub(b[2], o[2])))

\* scipy's ConvexHull raises QhullError when the input has no three points
\* that are not collinear (flat initial simplex, or too few points)
HullFails(P) == \A o \in P, a \in P, b \in P : Cross(o, a, b) = Zero

\* the boundary edges of the hull, counter-clockwise, between extreme points
HullEdges(P) ==
  {e \in P \X P :
     /\ e[1] # e[2]
     /\ \A r \in P :
          \/ RLt(Zero, Cross(e[1], e[2], r))
          \/ Cross(e[1], e[2], r) = Zero /\ RLe(Dot(r, e[1], e[2]), Zero)}

\* an edge length left in mesh units, squared
EdgeSqMeshUnits(e) ==
  LET dx == RSub(e[2][1], e[1][1])
      dz == RSub(e[2][2], e[1][2])
  IN  RAdd(RMul(dx, dx), RMul(dz, dz))

\* np.linalg.norm(p2 - p1) * 100, squared
EdgeSq(e) ==
  LET dx == RMul(RSub(e[2][1], e[1][1]), Int2Rat(CmPerUnit))
      dz == RMul(RSub(e[2][2], e[1][2]), Int2Rat(CmPerUnit))
  IN  RAdd(RMul(dx, dx), RMul(dz, dz))

HullPerimeter(P) ==
  LET E == HullEdges(P)
      L == {EdgeSq(e) : e \in E}
  IN  SumOfRoots([l \in L |-> Cardinality({e \in E : EdgeSq(e) = l})])

\* a, b = width / 2, depth / 2 with width, depth already times 100
SemiAxis(extent) == RDiv(RMul(extent, Int2Rat(CmPerUnit)), Int2Rat(2))

\* np.pi * (a + b)
SimpleEllipse(a, b) == PiTimes(RAdd(a, b))

\* np.pi * (3 * (a + b) - np.sqrt((3 * a + b) * (a + 3 * b)))
Ramanujan(a, b) ==
  PiRamanujan(RMul(Int2Rat(3), RAdd(a, b)),
              RMul(RAdd(RMul(Int2Rat(3), a), b), RAdd(a, RMul(Int2Rat(3), b))))

\* a slice whose thickness is absolute, not a fraction of the height range
EstimatorSliceAbsolute(V, y_level, slice_thickness) ==
  SliceMask(V, y_level, slice_thickness)

\* thickness = y_range * slice_thickness; the slice every estimator builds
EstimatorSlice(V, y_level, slice_thickness) ==
  SliceMask(V, y_level, RMul(y_range_of(V), slice_thickness))

\* a null test that lets a nine-vertex slice through
TooFewOffByOne(I) == Cardinality(I) < MinSliceVerts - 1

\* `if len(slice_verts) < 10: return None`
TooFew(I) == Cardinality(I) < MinSliceVerts

\* One call of an estimator: what it returns and what it evaluated on the way
EstimatorRun(ret, evaluated) == [ret |-> ret, evaluated |-> evaluated]

\* a hull failure answered with the simple ellipse of method 2
method1_simple_fallback(V, y_level, slice_thickness) ==
  LET I == EstimatorSlice(V, y_level, slice_thickness)
      P == XZPoints(V, I)
  IN  IF TooFew(I) THEN EstimatorRun(None, {})
      ELSE IF ~HullFails(P) THEN EstimatorRun(HullPerimeter(P), {"hull"})
      ELSE EstimatorRun(SimpleEllipse(SemiAxis(WidthOf(V, I)), SemiAxis(DepthOf(V, I))),
                        {"hull", "width", "depth"})

method1_run(V, y_level, slice_thickness) ==
  LET I == EstimatorSlice(V, y_level, slice_thickness)
      P == XZPoints(V, I)
  IN  IF TooFew(I) THEN EstimatorRun(None, {})
      ELSE IF ~HullFails(P) THEN EstimatorRun(HullPerimeter(P), {"hull"})
      ELSE EstimatorRun(Ramanujan(SemiAxis(WidthOf(V, I)), SemiAxis(DepthOf(V, I))),
                        {"hull", "width", "depth"})

method2_run(V, y_level, slice_thickness) ==
  LET I == EstimatorSlice(V, y_level, slice_thickness)
  IN  IF TooFew(I) THEN EstimatorRun(None, {})
      ELSE EstimatorRun(SimpleEllipse(SemiAxis(WidthOf(V, I)), SemiAxis(DepthOf(V, I))),
                        {"width", "depth"})

method3_run(V, y_level, slice_thickness) ==
  LET I == EstimatorSlice(V, y_level, slice_thickness)
  IN  IF TooFew(I) THEN EstimatorRun(None, {})
      ELSE EstimatorRun(Ramanujan(SemiAxis(WidthOf(V, I)), SemiAxis(DepthOf(V, I))),
                        {"width", "depth"})

\* the estimator of the joint-based run: hull perimeter, and on any exception
\* of the hull construction the Ramanujan form on the bounding box
calculate_circumference_from_slice_run(V, y_level, slice_thickness) ==
  LET I == EstimatorSlice(V, y_level, slice_thickness)
      P == XZPoints(V, I)
  IN  IF TooFew(I) THEN EstimatorRun(None, {})
      ELSE IF ~HullFails(P) THEN EstimatorRun(HullPerimeter(P), {"hull"})
      ELSE EstimatorRun(Ramanujan(SemiAxis(WidthOf(V, I)), SemiAxis(DepthOf(V, I))),
                        {"hull", "width", "depth"})

calculate_circumference_from_slice(V, y_level, slice_thickness) ==
  calculate_circumference_from_slice_run(V, y_level, slice_thickness).ret

calculate_circumference_method1(V, y_level, slice_thickness) ==
  method1_run(V, y_level, slice_thickness).ret
calculate_circumference_method2(V, y_level, slice_thickness) ==
  method2_run(V, y_level, slice_thickness).ret
calculate_circumference_method3(V, y_level, slice_thickness) ==
  method3_run(V, y_level, slice_thickness).ret

----------------------------------------------------------------------------
(* Numerical value of a closed form, as an interval with rational ends     *)
(* that contains it.  A square root of a square of a rational is exact;    *)
(* any other root is enclosed between two neighbours on a grid of          *)
(* 1 / SqrtResolution, and pi between 333/106 and 355/113.                 *)

\* grid of the enclosures of square roots, in steps per centimetre
SqrtResolution == 100

RECURSIVE ISqrtIn(_, _, _)
ISqrtIn(x, lo, hi) ==
  IF lo = hi THEN lo
  ELSE LET mid == (lo + hi + 1) \div 2
       IN  IF mid * mid <= x THEN ISqrtIn(x, mid, hi) ELSE ISqrtIn(x, lo, mid - 1)

\* the integer part of the square root of a natural number below 2^31
ISqrt(x) == ISqrtIn(x, 0, 46340)

IsSquare(n) == ISqrt(n) * ISqrt(n) = n

\* the integer part of l * m, for a rational l >= 0 and a natural m
FloorTimes(l, m) == (l[1] \div l[2]) * m + ((l[1] % l[2]) * m) \div l[2]

SqrtLo(l) ==
  IF IsSquare(l[1]) /\ IsSquare(l[2]) THEN Rat(ISqrt(l[1]), ISqrt(l[2]))
  ELSE Rat(ISqrt(FloorTimes(l, SqrtResolution * SqrtResolution)), SqrtResolution)

SqrtHi(l) ==
  IF IsSquare(l[1]) /\ IsSquare(l[2]) THEN Rat(ISqrt(l[1]), ISqrt(l[2]))
  ELSE Rat(ISqrt(FloorTimes(l, SqrtResolution * SqrtResolution)) + 1, SqrtResolution)

PiLo == Rat(333, 106)
PiHi == Rat(355, 113)

RECURSIVE SumRoots(_, _, _)
SumRoots(bag, L, upper) ==
  IF L = {} THEN Zero
  ELSE LET l == CHOOSE x \in L : TRUE
           root == IF upper THEN SqrtHi(l) ELSE SqrtLo(l)
       IN  RAdd(RMul(Int2Rat(bag[l]), root), SumRoots(bag, L \ {l}, upper))

\* a lower and an upper bound of the value of a closed form
ValLo(r) ==
  CASE r.kind = "pi_lin" -> RMul(PiLo, r.c)
    [] r.kind = "ramanujan" ->
         LET t == RSub(r.p, SqrtHi(r.q))
         IN  IF RLt(t, Zero) THEN RMul(PiHi, t) ELSE RMul(PiLo, t)
    [] r.kind = "perimeter" -> SumRoots(r.sq, DOMAIN r.sq, FALSE)

ValHi(r) ==
  CASE r.kind = "pi_lin" -> RMul(PiHi, r.c)
    [] r.kind = "ramanujan" ->
         LET t == RSub(r.p, SqrtLo(r.q))
         IN  IF RLt(t, Zero) THEN RMul(PiLo, t) ELSE RMul(PiHi, t)
    [] r.kind = "perimeter" -> SumRoots(r.sq, DOMAIN r.sq, TRUE)

\* r >= s and r < s, where the enclosures decide it
AtLeast(r, s) == r = s \/ RLe(ValHi(s), ValLo(r))
Below(r, s) == r # s /\ RLt(ValHi(r), ValLo(s))

----------------------------------------------------------------------------
(* Binary floating point.  A float is a rational m * 2^e with              *)
(* |m| < 2^MantBits; every operation rounds its exact result to the        *)
(* nearest float, ties to even, as numpy's float64 does at 53 bits.        *)

\* mantissa width of the modelled floats
MantBits == 8

\* scales n/d by powers of two until 2^(MantBits-1) <= n/d < 2^MantBits
RECURSIVE FlExp(_, _, _)
FlExp(n, d, e) ==
  IF n >= d * 2^MantBits THEN FlExp(n, 2 * d, e + 1)
  ELSE IF n < d * 2^(MantBits - 1) THEN FlExp(2 * n, d, e - 1)
  ELSE <<n, d, e>>

\* the float nearest to the rational r
Fl(r) ==
  IF ~IsFinite(r) THEN r
  ELSE IF r[1] = 0 THEN Zero
  ELSE LET t == FlExp(Abs(r[1]), r[2], 0)
           q == t[1] \div t[2]
           rem == t[1] - q * t[2]
           m == IF 2 * rem > t[2] \/ (2 * rem = t[2] /\ q % 2 = 1) THEN q + 1 ELSE q
           sm == IF r[1] < 0 THEN -m ELSE m
       IN  IF t[3] >= 0 THEN Rat(sm * 2^t[3], 1) ELSE Rat(sm, 2^(-t[3]))

FAdd(a, b) == Fl(RAdd(a, b))
FSub(a, b) == Fl(RSub(a, b))
FMul(a, b) == Fl(RMul(a, b))
FDiv(a, b) == Fl(RDiv(a, b))

\* np.pi as a float
PiFl == Fl(Rat(355, 113))

\* mesh_height = vertices[:, 1].max() - vertices[:, 1].min()
\* mesh_height_cm = mesh_height * 100
mesh_height_cm_fl(V) ==
  FMul(FSub(y_max_of(V), y_min_of(V)), Fl(Int2Rat(CmPerUnit)))

\* scale_factor = actual_height_cm / mesh_height_cm
ScaleFactorFl(V, height_cm) == FDiv(Fl(Int2Rat(height_cm)), mesh_height_cm_fl(V))

\* vertices * scale_factor
ScaleVerticesFl(V, s) ==
  [i \in DOMAIN V |-> <<FMul(V[i][1], s), FMul(V[i][2], s), FMul(V[i][3], s)>>]

\* mask = np.abs(vertices[:, 1] - y_level) < thickness, as the doubles
\* compute it
EstimatorSliceFl(V, y_level, slice_thickness) ==
  LET thickness == FMul(FSub(y_max_of(V), y_min_of(V)), Fl(slice_thickness))
      near == {l \in YsOf(V, DOMAIN V) : RLt(RAbs(FSub(l, y_level)), thickness)}
  IN  {i \in DOMAIN V : V[i][2] \in near}

\* calculate_circumference_method2 as the doubles compute it; the value is
\* the float itself, None for a slice of fewer than ten vertices
calculate_circumference_method2_fl(V, y_level, slice_thickness) ==
  LET I == EstimatorSliceFl(V, y_level, slice_thickness)
      xs == XsOf(V, I)
      zs == ZsOf(V, I)
      width == FMul(FSub(RMaxOf(xs), RMinOf(xs)), Fl(Int2Rat(CmPerUnit)))
      depth == FMul(FSub(RMaxOf(zs), RMinOf(zs)), Fl(Int2Rat(CmPerUnit)))
      a == FDiv(width, Int2Rat(2))
      b == FDiv(depth, Int2Rat(2))
  IN  IF Cardinality(I) < MinSliceVerts THEN None
      ELSE [kind |-> "float", v |-> FMul(PiFl, FAdd(a, b))]

----------------------------------------------------------------------------
(* Landmark search, extract_measurements_adaptive.py:82-191 *)

\* float('inf'): RLt(w, Inf) holds of every rational w
Inf == <<1, 0>>
NoY == <<>>

\* `if mask.sum() > 10`
MinSearchVerts == 10

\* Python truthiness of `waist_y`: None and 0.0 are falsy
YTruthy(y) == y # NoY /\ y # Zero

\* np.linspace(start, stop, N)[k], k = 0 .. N-1
Linspace(start, stop, N, k) ==
  RAdd(start, RMul(Int2Rat(k), RDiv(RSub(stop, start), Int2Rat(N - 1))))

\* y_min + y_range * ratio
AtRatio(V, ratio) == RAdd(y_min_of(V), RMul(y_range_of(V), ratio))

\* what one pass of a search loop sees at each sample: the height, the
\* number of vertices in the mask and the slice's width
SearchSamples(V, lo, hi, N, thick) ==
  LET start == AtRatio(V, lo)
      stop == AtRatio(V, hi)
      thickness == RMul(y_range_of(V), thick)
  IN  [k \in 1..N |->
         LET y == Linspace(start, stop, N, k - 1)
             I == SliceMask(V, y, thickness)
         IN  [y |-> y,
              valid |-> Cardinality(I) > MinSearchVerts,
              width |-> IF I = {} THEN Zero ELSE WidthOf(V, I)]]

\* for y in search_y: ... if width < min_width: min_width = width; waist_y = y
RECURSIVE NarrowestScan(_, _, _, _)
NarrowestScan(S, k, min_width, best) ==
  IF k > Len(S) THEN best
  ELSE IF S[k].valid /\ RLt(S[k].width, min_width)
       THEN NarrowestScan(S, k + 1, S[k].width, S[k].y)
       ELSE NarrowestScan(S, k + 1, min_width, best)

\* for y in search_y: ... if width > max_width: max_width = width; chest_y = y
RECURSIVE WidestScan(_, _, _, _)
WidestScan(S, k, max_width, best) ==
  IF k > Len(S) THEN best
  ELSE IF S[k].valid /\ RLt(max_width, S[k].width)
       THEN WidestScan(S, k + 1, S[k].width, S[k].y)
       ELSE WidestScan(S, k + 1, max_width, best)

FindNarrowest(V, lo, hi, N, thick) ==
  NarrowestScan(SearchSamples(V, lo, hi, N, thick), 1, Inf, NoY)
FindWidest(V, lo, hi, N, thick) ==
  WidestScan(SearchSamples(V, lo, hi, N, thick), 1, Zero, NoY)

\* `waist_y if waist_y else (y_min + y_range * 0.55)`
OrFallback(V, found, ratio) == IF YTruthy(found) THEN found ELSE AtRatio(V, ratio)

\* a hip window whose fallback is the midpoint of the window
HipMidpointFallback ==
  [lo |-> Rat(3, 10), hi |-> Rat(55, 100), n |-> 40, thick |-> Rat(4, 100),
   fallback |-> Rat(425, 1000)]

\* a waist window whose fallback lies above the window
WaistFallbackAboveWindow ==
  [lo |-> Rat(4, 10), hi |-> Rat(7, 10), n |-> 50, thick |-> Rat(2, 100),
   fallback |-> Rat(75, 100)]

\* The search windows, sample counts, thicknesses and fallback ratios
Waist == [lo |-> Rat(4, 10), hi |-> Rat(7, 10), n |-> 50, thick |-> Rat(2, 100),
          fallback |-> Rat(55, 100)]
Chest == [lo |-> Rat(7, 10), hi |-> Rat(9, 10), n |-> 40, thick |-> Rat(3, 100),
          fallback |-> Rat(8, 10)]
Hip == [lo |-> Rat(3, 10), hi |-> Rat(55, 100), n |-> 40, thick |-> Rat(4, 100),
          fallback |-> Rat(45, 100)]
Neck == [lo |-> Rat(85, 100), hi |-> Rat(95, 100), n |-> 30, thick |-> Rat(2, 100),
          fallback |-> Rat(9, 10)]
Knee == [lo |-> Zero, hi |-> Rat(4, 10), n |-> 30, thick |-> Rat(2, 100),
          fallback |-> Rat(35, 100)]

waist_search(V) == FindNarrowest(V, Waist.lo, Waist.hi, Waist.n, Waist.thick)
chest_search(V) == FindWidest(V, Chest.lo, Chest.hi, Chest.n, Chest.thick)
hip_search(V) == FindWidest(V, Hip.lo, Hip.hi, Hip.n, Hip.thick)
neck_search(V) == FindNarrowest(V, Neck.lo, Neck.hi, Neck.n, Neck.thick)
knee_search(V) == FindNarrowest(V, Knee.lo, Knee.hi, Knee.n, Knee.thick)

\* landmarks['thigh']
ThighLandmark(V, hip, knee_y) ==
  IF YTruthy(knee_y) /\ YTruthy(hip)
  THEN RDiv(RAdd(hip, knee_y), Int2Rat(2))
  ELSE AtRatio(V, Knee.fallback)

\* landmarks['crotch']: lowest vertex in the centre band of the x extent
CrotchLandmark(V, hip) ==
  LET xs == XsOf(V, DOMAIN V)
      x_center == RDiv(RAdd(RMinOf(xs), RMaxOf(xs)), Int2Rat(2))
      x_range == RSub(RMaxOf(xs), RMinOf(xs))
      band == RMul(x_range, Rat(15, 100))
      center_mask == {i \in DOMAIN V : RLt(RAbs(RSub(V[i][1], x_center)), band)}
  IN  IF Cardinality(center_mask) > 0
      THEN RMinOf(YsOf(V, center_mask))
      ELSE RSub(hip, RMul(y_range_of(V), Rat(1, 10)))

find_adaptive_landmarks(V) ==
  LET waist == OrFallback(V, waist_search(V), Waist.fallback)
      chest == OrFallback(V, chest_search(V), Chest.fallback)
      hip   == OrFallback(V, hip_search(V), Hip.fallback)
      neck  == OrFallback(V, neck_search(V), Neck.fallback)
  IN  [waist |-> waist, chest |-> chest, hip |-> hip, neck |-> neck,
       thigh |-> ThighLandmark(V, hip, knee_search(V)),
       crotch |-> CrotchLandmark(V, hip)]

----------------------------------------------------------------------------
(* Input meshes.  A mesh is a column of rectangular rings of vertices      *)
(* between a floor and a top vertex.                                       *)

\* raw height-axis extent of the input meshes, in mesh units
RawHeight == 20
\* largest half-width of a ring, in mesh units
MaxHalfWidth == 3

\* heights of the rings above the floor: lower leg, hip, waist, chest, neck
RingOffsets == <<4, 9, 11, 16, 18>>
Rings == DOMAIN RingOffsets

\* the k-th vertex of a ring cycles through the corners (+-w, +-1)
Corner(k, w) ==
  CASE k % 4 = 0 -> <<w, 1>>
    [] k % 4 = 1 -> <<-w, 1>>
    [] k % 4 = 2 -> <<-w, -1>>
    [] OTHER     -> <<w, -1>>

Ring(y, w, n) ==
  [k \in 1..n |-> <<Int2Rat(Corner(k, w)[1]), Int2Rat(y), Int2Rat(Corner(k, w)[2])>>]

RECURSIVE Concat(_, _)
Concat(F, k) == IF k = 0 THEN <<>> ELSE Concat(F, k - 1) \o F[k]

\* feet (together at x = 0, or apart at x = +-1), a vertex between the legs,
\* the rings that are present, and the top of the head
BuildMesh(y0, feet_together, density, present, widths) ==
  LET fx == IF feet_together THEN 0 ELSE 1
      feet == << <<Int2Rat(-fx), Int2Rat(y0), Zero>>, <<Int2Rat(fx), Int2Rat(y0), Zero>> >>
      fork == << <<Zero, Int2Rat(y0 + 7), Zero>> >>
      top  == << <<Zero, Int2Rat(y0 + RawHeight), Zero>> >>
      body == Concat([r \in Rings |->
                        IF r \in present
                        THEN Ring(y0 + RingOffsets[r], widths[r], density)
                        ELSE <<>>], Len(RingOffsets))
  IN  feet \o fork \o body \o top

WidthProfiles == { <<2, 2, 2, 2, 2>>, <<1, MaxHalfWidth, 2, MaxHalfWidth, 1>> }
Densities == (MinSliceVerts - 1) .. (MinSearchVerts + 1)
FloorLevels == {0, -8}
RingSets == {Rings, Rings \ {2}, Rings \ {3, 4}, {2, 4}, {}}

BoxMeshes ==
  {BuildMesh(y0, ft, n, pr, w) :
     y0 \in FloorLevels, ft \in BOOLEAN, n \in Densities,
     pr \in RingSets, w \in WidthProfiles}

\* the corners of an octagon inscribed in the box 6 by 4, counter-clockwise
Octagon == << <<3, 0>>, <<2, 1>>, <<0, 2>>, <<-2, 1>>, <<-3, 0>>, <<-2, -1>>,
              <<0, -2>>, <<2, -1>> >>

\* rings that are not rectangles: a segment along the width axis, a segment
\* along the depth axis, a slanted segment, a single point, or an octagon
Shapes == {"line_x", "line_z", "diag", "point", "octagon"}

ShapedCorner(shape, k, w) ==
  LET sgn == IF k % 2 = 0 THEN 1 ELSE -1
  IN  CASE shape = "line_x" -> <<sgn * w, 0>>
        [] shape = "line_z" -> <<0, sgn * w>>
        [] shape = "diag"   -> <<sgn * w, sgn>>
        [] shape = "octagon" ->
             <<w * Octagon[(k % 8) + 1][1], w * Octagon[(k % 8) + 1][2]>>
        [] OTHER            -> <<0, 0>>

ShapedRing(shape, y, w, n) ==
  [k \in 1..n |-> <<Int2Rat(ShapedCorner(shape, k, w)[1]), Int2Rat(y),
                    Int2Rat(ShapedCorner(shape, k, w)[2])>>]

BuildShapedMesh(shape, density, widths) ==
  LET feet == << <<Zero, Zero, Zero>>, <<Zero, Zero, Zero>> >>
      fork == << <<Zero, Int2Rat(7), Zero>> >>
      top  == << <<Zero, Int2Rat(RawHeight), Zero>> >>
      body == Concat([r \in Rings |->
                        ShapedRing(shape, RingOffsets[r], widths[r], density)],
                     Len(RingOffsets))
  IN  feet \o fork \o body \o top

DegenerateMeshes ==
  {BuildShapedMesh(sh, n, w) :
     sh \in Shapes, n \in {MinSliceVerts, MinSearchVerts + 1}, w \in WidthProfiles}

\* the mesh V moved down the height axis by y
MovedDown(V, y) == [i \in DOMAIN V |-> <<V[i][1], RSub(V[i][2], y), V[i][3]>>]

\* meshes with the sampled level that a search selects at height 0.0 exactly:
\* a body standing on the plane y = 0 with the soles as a ring of vertices,
\* and bodies placed with the plane y = 0 through the chest or the waist
ZeroLevelMeshes ==
  {Ring(0, 1, MinSearchVerts + 1) \o BuildMesh(0, FALSE, MinSearchVerts + 1, Rings, w) :
     w \in WidthProfiles}
    \cup UNION {{MovedDown(M, chest_search(M)), MovedDown(M, waist_search(M))} :
                 M \in {BuildMesh(0, TRUE, MinSearchVerts + 1, Rings, w) :
                          w \in WidthProfiles}}

InputMeshes == BoxMeshes \cup DegenerateMeshes \cup ZeroLevelMeshes

\* meshes of no height: every vertex at the same level
FlatMeshes == {Ring(y0, 2, MinSearchVerts + 1) : y0 \in {0, 5}}

\* the real-world heights, in centimetres, a run is asked to calibrate to
ActualHeights == {100, 115, 220}
\* `--height` not given: args.height is None, which Python treats as false
NoHeight == 0
\* heights that are not positive
NonPositiveHeights == {0, -100}
\* the range AvatarCreateRequest accepts: Field(..., ge=100, le=250)
MinRequestHeight == 100
MaxRequestHeight == 250

----------------------------------------------------------------------------
(* Fixed-ratio measurement of the other entry points *)

\* find_anatomical_landmarks, extract_measurements_improved.py:14-125
AnatWaist == [lo |-> Rat(4, 10), hi |-> Rat(7, 10), n |-> 50, thick |-> Rat(2, 100),
              fallback |-> Rat(6, 10)]
AnatChest == [lo |-> Rat(7, 10), hi |-> Rat(85, 100), n |-> 30, thick |-> Rat(3, 100),
              fallback |-> Rat(75, 100)]
AnatHip == [lo |-> Rat(45, 100), hi |-> Rat(55, 100), n |-> 20, thick |-> Rat(4, 100),
              fallback |-> Rat(5, 10)]
AnatNeck == [lo |-> Rat(85, 100), hi |-> Rat(95, 100), n |-> 20, thick |-> Rat(2, 100),
              fallback |-> Rat(9, 10)]
AnatKnee == [lo |-> Zero, hi |-> Rat(4, 10), n |-> 30, thick |-> Rat(2, 100),
              fallback |-> Rat(4, 10)]
AnatShoulder == [lo |-> Rat(75, 100), hi |-> Rat(85, 100), n |-> 20, thick |-> Rat(3, 100),
                 fallback |-> Rat(8, 10)]

find_anatomical_landmarks(V) ==
  LET narrow(L) == FindNarrowest(V, L.lo, L.hi, L.n, L.thick)
      wide(L) == FindWidest(V, L.lo, L.hi, L.n, L.thick)
      hip == OrFallback(V, wide(AnatHip), AnatHip.fallback)
      knee_y == narrow(AnatKnee)
  IN  [waist |-> OrFallback(V, narrow(AnatWaist), AnatWaist.fallback),
       chest |-> OrFallback(V, wide(AnatChest), AnatChest.fallback),
       hip |-> hip,
       neck |-> OrFallback(V, narrow(AnatNeck), AnatNeck.fallback),
       thigh |-> IF YTruthy(knee_y) /\ YTruthy(hip)
                 THEN RDiv(RAdd(hip, knee_y), Int2Rat(2))
                 ELSE AtRatio(V, AnatKnee.fallback),
       shoulder |-> OrFallback(V, wide(AnatShoulder), AnatShoulder.fallback)]

\* measure_circumference of extract_measurements_with_height,
\* extract_accurate_measurements.py:51-74
measure_circumference(V, height_ratio, thickness_ratio) ==
  LET I == SliceMask(V, AtRatio(V, height_ratio), RMul(y_range_of(V), thickness_ratio))
  IN  IF Cardinality(I) > 10
      THEN PiTimes(RMul(RAdd(RDiv(WidthOf(V, I), Int2Rat(2)), RDiv(DepthOf(V, I), Int2Rat(2))),
                        Int2Rat(CmPerUnit)))
      ELSE None

\* the measurements dict of extract_measurements_with_height, lines 43-128,
\* from the scaled array V, the height asked for, and the height of the
\* mesh as loaded and the scale factor that the metadata record
AccurateMeasurements(V, height_cm, mesh_height_cm, s) ==
  LET shoulder_mask == SliceMask(V, AtRatio(V, Rat(85, 100)), RMul(y_range_of(V), Rat(2, 100)))
      base ==
        [height_cm |-> Int2Rat(height_cm),
         chest_circumference_cm |-> measure_circumference(V, Rat(75, 100), Rat(4, 100)),
         underbust_cm |-> measure_circumference(V, Rat(70, 100), Rat(3, 100)),
         waist_circumference_cm |-> measure_circumference(V, Rat(60, 100), Rat(3, 100)),
         hip_circumference_cm |-> measure_circumference(V, Rat(50, 100), Rat(4, 100)),
         neck_circumference_cm |-> measure_circumference(V, Rat(90, 100), Rat(2, 100)),
         thigh_circumference_cm |-> measure_circumference(V, Rat(40, 100), Rat(3, 100)),
         arm_span_cm |-> RMul(WidthOf(V, DOMAIN V), Int2Rat(CmPerUnit)),
         inseam_cm |-> RMul(Int2Rat(height_cm), Rat(45, 100)),
         torso_length_cm |-> RMul(RMul(y_range_of(V), Rat(35, 100)), Int2Rat(CmPerUnit)),
         arm_length_cm |-> RMul(RMul(y_range_of(V), Rat(30, 100)), Int2Rat(CmPerUnit)),
         _metadata |-> [actual_height_input_cm |-> Int2Rat(height_cm),
                        mesh_original_height_cm |-> mesh_height_cm,
                        scale_factor_applied |-> s,
                        calibration_method |-> "height_based"]]
  IN  IF Cardinality(shoulder_mask) > 0
      THEN base @@ ("shoulder_width_cm" :>
                      RMul(WidthOf(V, shoulder_mask), Int2Rat(CmPerUnit)))
      ELSE base

\* measure_circumference_at_height of calculate_measurements_from_vertices,
\* fix_measurements_and_pose.py:47-57: the slice is taken on the array it is
\* given and the result is multiplied by scale_factor
measure_circumference_at_height(V, s, height_ratio, thickness_ratio) ==
  LET I == SliceMask(V, AtRatio(V, height_ratio), RMul(y_range_of(V), thickness_ratio))
  IN  IF Cardinality(I) > 0
      THEN PiTimes(RMul(RMul(RDiv(RAdd(WidthOf(V, I), DepthOf(V, I)), Int2Rat(2)),
                             Int2Rat(CmPerUnit)), s))
      ELSE None

\* the measurements dict of calculate_measurements_from_vertices, lines 40-87
FromVerticesMeasurements(V, s, height_cm) ==
  LET shoulder_verts == SliceMask(V, AtRatio(V, Rat(85, 100)), RMul(y_range_of(V), Rat(2, 100)))
      height == IF height_cm # NoHeight THEN Int2Rat(height_cm)
                ELSE RMul(y_range_of(V), Int2Rat(CmPerUnit))
      base ==
        [height_cm |-> height,
         chest_circumference_cm |-> measure_circumference_at_height(V, s, Rat(75, 100), Rat(5, 100)),
         waist_circumference_cm |-> measure_circumference_at_height(V, s, Rat(60, 100), Rat(3, 100)),
         hip_circumference_cm |-> measure_circumference_at_height(V, s, Rat(50, 100), Rat(5, 100)),
         neck_circumference_cm |-> measure_circumference_at_height(V, s, Rat(88, 100), Rat(2, 100)),
         arm_span_cm |-> RMul(RMul(WidthOf(V, DOMAIN V), Int2Rat(CmPerUnit)), s),
         inseam_cm |-> RMul(height, Rat(45, 100)),
         torso_length_cm |-> RMul(RMul(RMul(y_range_of(V), Rat(35, 100)), Int2Rat(CmPerUnit)), s)]
  IN  IF Cardinality(shoulder_verts) > 0
      THEN base @@ ("shoulder_width_cm" :>
                      RMul(RMul(WidthOf(V, shoulder_verts), Int2Rat(CmPerUnit)), s))
      ELSE base

----------------------------------------------------------------------------
(* The runs, one program position per step *)

VARIABLES
  entry,             \* which entry point runs
  mesh_file,         \* the mesh stored at mesh_path
  actual_height_cm,  \* the height argument of the current call
  height_estimates,  \* heights still to try (extract_measurements_from_multiple_heights)
  pc,                \* position of the run
  vertices,          \* the local `vertices`
  vertices_scaled,   \* whether `vertices` currently holds scaled coordinates
  scale_factor,
  scaled_vertices,
  fp,                \* scale_factor and the scaled array as the doubles hold them
  landmarks,
  circ,              \* chest_circ, waist_circ, ...: each estimator call made
  measurements,      \* the dict being filled: key -> value
  results,           \* results[f'{height}cm'] of the multiple-heights loop
  scale_computations,\* how often a scale factor was computed in this run
  reads,             \* which array each search and slice read, in order
  tasks,             \* the steps already evaluated when the order is free
  joints,            \* the joint array of the joint-based run
  calibration_measurements, \* the optional argument of extract_measurements_adaptive
  jobs,              \* the backend's in-memory job table: job_id -> job
  fit_passports,     \* the status column of the fit_passports table: user_id -> status
  background,        \* position and locals of each create_avatar / process_avatar_job
  celery,            \* position, locals and retry count of create_avatar_task
  pipeline           \* position and step results of run_pipeline

vars == <<entry, mesh_file, actual_height_cm, height_estimates, pc, vertices,
          vertices_scaled, scale_factor, scaled_vertices, fp, landmarks, circ,
          measurements, results, scale_computations, reads, tasks, joints,
          calibration_measurements, jobs, fit_passports, background, celery,
          pipeline>>

\* the state of the backend service and of the pipeline runner
service_vars == <<jobs, fit_passports, background, celery, pipeline>>

\* the state of the measurement scripts
script_vars == <<entry, mesh_file, actual_height_cm, height_estimates, pc, vertices,
                 vertices_scaled, scale_factor, scaled_vertices, fp, landmarks, circ,
                 measurements, results, scale_computations, reads, tasks, joints,
                 calibration_measurements>>

Unset == <<>>

\* extract_measurements_adaptive.py, fix_measurements_and_pose.py (main with
\* --mesh), extract_accurate_measurements.py (--height-range) and the
\* landmark finder of extract_measurements_improved.py
Entries == {"adaptive", "fix_pose", "multiple_heights", "anatomical",
            "handler", "backend"}

\* the heights each entry point may be called with
HeightsOf(e) ==
  CASE e = "adaptive" -> {<<h>> : h \in ActualHeights}
    [] e = "fix_pose" -> {<<h>> : h \in ActualHeights \cup {NoHeight}}
    [] e = "multiple_heights" ->
         {<<100, 115>>, <<115, 220>>, <<220, 220>>}
    [] e = "anatomical" -> {<<NoHeight>>}
    [] e = "handler" -> {<<h>> : h \in ActualHeights \cup {NoHeight}}
    [] e = "backend" -> {<<h>> : h \in ActualHeights}

\* the handler and the request model take no mesh
MeshesOf(e) == IF e \in {"handler", "backend"} THEN {Unset} ELSE InputMeshes

\* every height and every mesh a caller can pass, the ones the engine is not
\* meant to accept included
AnyHeightsOf(e) ==
  CASE e = "adaptive" -> {<<h>> : h \in {115} \cup NonPositiveHeights}
    [] e = "fix_pose" -> {<<h>> : h \in {115, NoHeight, -100}}
    [] e = "multiple_heights" -> {<<115, 220>>, <<-100, 115>>}
    [] e = "anatomical" -> {<<NoHeight>>}
    [] e = "handler" -> {<<h>> : h \in {115} \cup NonPositiveHeights}
    [] e = "backend" ->
         {<<h>> : h \in {MinRequestHeight - 1, MinRequestHeight, MaxRequestHeight,
                         MaxRequestHeight + 1} \cup NonPositiveHeights}

AnyMeshesOf(e) ==
  LET some == {BuildMesh(0, ft, MinSearchVerts + 1, Rings, w) :
                 ft \in BOOLEAN, w \in WidthProfiles}
  IN  CASE e \in {"handler", "backend"} -> {Unset}
        [] e = "adaptive" -> some \cup FlatMeshes
        [] OTHER -> some

\* the state of a run before its first step
\* calibration_measurements=None, distinct from every dict
NoCalibration == ("None" :> Zero)

\* the dicts main builds from --calibrate-chest, --calibrate-waist and
\* --calibrate-hip, and the empty dict
Calibrations ==
  { <<>>,
    ("chest_cm" :> Int2Rat(50)),
    ("chest_cm" :> Int2Rat(102)) @@ ("waist_cm" :> Int2Rat(83)) @@ ("hip_cm" :> Int2Rat(96)),
    ("waist_cm" :> Int2Rat(83)) }

CalibrationsOf(e) ==
  IF e = "calibrated" THEN Calibrations ELSE {NoCalibration}

\* no request, no task and no pipeline run
ServiceIdle ==
  /\ jobs = <<>>
  /\ fit_passports = <<>>
  /\ background = <<>>
  /\ celery = <<>>
  /\ pipeline = <<>>

\* no script has run
ScriptStart ==
  /\ pc = CASE entry \in {"handler", "backend"} -> "validate"
            [] entry = "smpl_joints" -> "generate"
            [] OTHER -> "load"
  /\ vertices = Unset
  /\ vertices_scaled = FALSE
  /\ scale_factor = Unset
  /\ scaled_vertices = Unset
  /\ fp = [scale_factor |-> Unset, scaled_vertices |-> Unset]
  /\ landmarks = Unset
  /\ circ = Unset
  /\ measurements = Unset
  /\ results = [k \in {} |-> Unset]
  /\ scale_computations = 0
  /\ reads = <<>>
  /\ tasks = {}
  /\ joints = Unset
  /\ calibration_measurements \in CalibrationsOf(entry)

Start ==
  /\ ServiceIdle
  /\ ScriptStart

\* no script is part of the run
ScriptIdle ==
  /\ mesh_file = Unset
  /\ actual_height_cm = NoHeight
  /\ height_estimates = <<>>
  /\ ScriptStart

Init ==
  /\ entry \in Entries
  /\ mesh_file \in MeshesOf(entry)
  /\ \E hs \in HeightsOf(entry) :
       /\ actual_height_cm = Head(hs)
       /\ height_estimates = Tail(hs)
  /\ Start

InitAnyInput ==
  /\ entry \in Entries
  /\ mesh_file \in AnyMeshesOf(entry)
  /\ \E hs \in AnyHeightsOf(entry) :
       /\ actual_height_cm = Head(hs)
       /\ height_estimates = Tail(hs)
  /\ Start

\* mesh = trimesh.load(mesh_path); vertices = mesh.vertices
Load ==
  /\ pc = "load"
  /\ vertices' = mesh_file
  /\ vertices_scaled' = FALSE
  /\ pc' = CASE entry = "anatomical" -> "anat_landmarks"
             [] entry = "fix_pose" -> "main_scale"
             [] OTHER -> "scale"
  /\ UNCHANGED <<service_vars, calibration_measurements, tasks, joints, fp, entry, mesh_file, actual_height_cm, height_estimates,
                 scale_factor, scaled_vertices, landmarks, circ, measurements,
                 results, scale_computations, reads>>

\* a scale factor that forgets the conversion of mesh units to centimetres
ScaleFactorNoCm(V, height_cm) == RDiv(Int2Rat(height_cm), y_range_of(V))

\* a scale factor with the quotient upside down
ScaleFactorInverted(V, height_cm) ==
  RDiv(RMul(y_range_of(V), Int2Rat(CmPerUnit)), Int2Rat(height_cm))

\* a scale factor kept from the first call of the process: a later call
\* takes the mesh as already calibrated
ScaleFactorOncePerProcess(V, height_cm) ==
  IF "first" \in DOMAIN results
  THEN Int2Rat(1)
  ELSE RDiv(Int2Rat(height_cm), RMul(y_range_of(V), Int2Rat(CmPerUnit)))

\* mesh_height_cm = mesh_height * 100
\* scale_factor = actual_height_cm / mesh_height_cm
ScaleFactor(V, height_cm) ==
  RDiv(Int2Rat(height_cm), RMul(y_range_of(V), Int2Rat(CmPerUnit)))

ComputeScale ==
  /\ pc = "scale"
  /\ scale_factor' = ScaleFactor(vertices, actual_height_cm)
  /\ fp' = [fp EXCEPT !.scale_factor = ScaleFactorFl(vertices, actual_height_cm)]
  /\ scale_computations' = scale_computations + 1
  /\ pc' = "apply"
  /\ UNCHANGED <<service_vars, calibration_measurements, tasks, joints, entry, mesh_file, actual_height_cm, height_estimates, vertices,
                 vertices_scaled, scaled_vertices, landmarks, circ, measurements,
                 results, reads>>

\* what an in-place `vertices *= scale_factor` would leave in `vertices`
VerticesScaledInPlace(V, s) == ScaleVertices(V, s)

\* what `scaled_vertices = vertices * scale_factor` leaves in `vertices`:
\* the product is a new array
VerticesAfterScaling(V, s) == V

\* scaled_vertices = vertices * scale_factor
ApplyScale ==
  /\ pc = "apply"
  /\ scaled_vertices' = ScaleVertices(vertices, scale_factor)
  /\ fp' = [fp EXCEPT !.scaled_vertices = ScaleVerticesFl(vertices, fp.scale_factor)]
  /\ vertices' = VerticesAfterScaling(vertices, scale_factor)
  /\ pc' = IF entry \in {"adaptive", "calibrated"} THEN "landmarks"
           ELSE "accurate_measure"
  /\ UNCHANGED <<service_vars, calibration_measurements, tasks, joints, entry, mesh_file, actual_height_cm, height_estimates,
                 vertices_scaled, scale_factor, landmarks, circ, measurements,
                 results, scale_computations, reads>>

Read(op, array, is_scaled) == [op |-> op, array |-> array, scaled |-> is_scaled]

\* a landmark search on the array as loaded
FindLandmarksUnscaled ==
  /\ pc = "landmarks"
  /\ landmarks' = find_adaptive_landmarks(vertices)
  /\ reads' = Append(reads, Read("landmarks", "vertices", vertices_scaled))
  /\ measurements' = [k \in {"height_cm"} |-> Int2Rat(actual_height_cm)]
  /\ circ' = [k \in {} |-> None]
  /\ pc' = "chest"
  /\ UNCHANGED <<service_vars, calibration_measurements, tasks, joints, fp, entry, mesh_file, actual_height_cm, height_estimates, vertices,
                 vertices_scaled, scale_factor, scaled_vertices, results,
                 scale_computations>>

\* the estimator with the given number
EstimateRun(method, V, y_level, thick) ==
  CASE method = 1 -> method1_run(V, y_level, thick)
    [] method = 2 -> method2_run(V, y_level, thick)
    [] method = 3 -> method3_run(V, y_level, thick)

\* `if calibration_measurements:`: None and the empty dict are falsy
CalibrationTruthy(cal) == cal # NoCalibration /\ DOMAIN cal # {}

\* the methods and thicknesses the calibration block tries, in loop order
CalibrationMethods == <<3, 2, 1>>
CalibrationThicknesses == <<Rat(2, 100), Rat(3, 100), Rat(4, 100)>>
\* `abs(circ - calibration_measurements['chest_cm']) < 5`
CalibrationTolerance == 5

\* a test level one slice thickness above the chest landmark
TestAboveChest(lm, V) == RAdd(lm.chest, RMul(y_range_of(V), Rat(3, 100)))

\* test_y = landmarks['chest']
TestY(lm, V) == lm.chest

\* `if circ and abs(circ - calibration_measurements['chest_cm']) < 5`
CalibrationMatches(c, target) ==
  /\ CircTruthy(c)
  /\ RLt(RSub(target, Int2Rat(CalibrationTolerance)), ValLo(c))
  /\ RLt(ValHi(c), RAdd(target, Int2Rat(CalibrationTolerance)))

\* the inner loop over the thicknesses from index t on: the level it assigns
\* to landmarks['chest'] before `break`, or NoY when it ends without a match
RECURSIVE ThicknessLoop(_, _, _, _, _)
ThicknessLoop(lm, V, target, method, t) ==
  IF t > Len(CalibrationThicknesses) THEN NoY
  ELSE LET test_y == TestY(lm, V)
           run == EstimateRun(method, V, test_y, CalibrationThicknesses[t])
       IN  IF CalibrationMatches(run.ret, target) THEN test_y
           ELSE ThicknessLoop(lm, V, target, method, t + 1)

\* the outer loop over the methods from index m on; `break` leaves the inner
\* loop only, so every method is tried with the landmarks as they then are
RECURSIVE MethodLoop(_, _, _, _)
MethodLoop(lm, V, target, m) ==
  IF m > Len(CalibrationMethods) THEN lm
  ELSE LET assigned == CHOOSE y \in {ThicknessLoop(lm, V, target, CalibrationMethods[m], 1)} : TRUE
       IN  MethodLoop(IF assigned = NoY THEN lm ELSE [lm EXCEPT !.chest = assigned],
                      V, target, m + 1)

\* the calibration block, lines 240-253
Calibrate(lm, V, cal) ==
  IF CalibrationTruthy(cal) /\ "chest_cm" \in DOMAIN cal
  THEN MethodLoop(lm, V, cal["chest_cm"], 1)
  ELSE lm

\* landmarks = find_adaptive_landmarks(scaled_vertices); the calibration
\* block; measurements = {}; measurements['height_cm'] = actual_height_cm
FindLandmarks ==
  /\ pc = "landmarks"
  /\ \E lm \in {find_adaptive_landmarks(scaled_vertices)} :
       landmarks' = Calibrate(lm, scaled_vertices, calibration_measurements)
  /\ reads' = Append(reads, Read("landmarks", "scaled_vertices", TRUE))
  /\ measurements' = [k \in {"height_cm"} |-> Int2Rat(actual_height_cm)]
  /\ circ' = [k \in {} |-> None]
  /\ pc' = "chest"
  /\ UNCHANGED <<service_vars, calibration_measurements, tasks, joints, fp, entry, mesh_file, actual_height_cm, height_estimates, vertices,
                 vertices_scaled, scale_factor, scaled_vertices, results,
                 scale_computations>>

\* The circumference policy of extract_measurements_adaptive: the landmark,
\* the estimator and the slice thickness of each circumference, in call order
Circumferences == <<"chest", "waist", "hip", "neck", "thigh">>

Policy ==
  [chest |-> [method |-> 3, thick |-> Rat(3, 100), next |-> "waist"],
   waist |-> [method |-> 2, thick |-> Rat(1, 100), next |-> "hip"],
   hip   |-> [method |-> 1, thick |-> Rat(4, 100), next |-> "neck"],
   neck  |-> [method |-> 2, thick |-> Rat(2, 100), next |-> "thigh"],
   thigh |-> [method |-> 1, thick |-> Rat(3, 100), next |-> "widths"]]

CircKey(name) ==
  CASE name = "chest" -> "chest_circumference_cm"
    [] name = "waist" -> "waist_circumference_cm"
    [] name = "hip"   -> "hip_circumference_cm"
    [] name = "neck"  -> "neck_circumference_cm"
    [] name = "thigh" -> "thigh_circumference_cm"

\* `if chest_circ: measurements['chest_circumference_cm'] = chest_circ`
StoreCirc(m, key, c) == IF CircTruthy(c) THEN m @@ (key :> c) ELSE m

\* chest_circ = calculate_circumference_method3(scaled_vertices,
\*                  landmarks['chest'], slice_thickness=0.03), and so on
MeasureCircumference(name) ==
  /\ pc = name
  /\ LET run == EstimateRun(Policy[name].method, scaled_vertices, landmarks[name],
                            Policy[name].thick)
     IN  /\ circ' = circ @@ (name :> run)
         /\ measurements' = StoreCirc(measurements, CircKey(name), run.ret)
  /\ reads' = Append(reads, Read(name, "scaled_vertices", TRUE))
  /\ pc' = Policy[name].next
  /\ UNCHANGED <<service_vars, calibration_measurements, tasks, joints, fp, entry, mesh_file, actual_height_cm, height_estimates, vertices,
                 vertices_scaled, scale_factor, scaled_vertices, landmarks,
                 results, scale_computations>>

\* shoulder width at chest level and arm span, lines 291-304
MeasureWidths ==
  /\ pc = "widths"
  /\ LET V == scaled_vertices
         shoulder_mask == SliceMask(V, landmarks.chest, RMul(y_range_of(V), Rat(2, 100)))
         arm_span == RMul(WidthOf(V, DOMAIN V), Int2Rat(CmPerUnit))
         with_shoulder ==
           IF Cardinality(shoulder_mask) > 0
           THEN measurements @@
                ("shoulder_width_cm" :> RMul(WidthOf(V, shoulder_mask), Int2Rat(CmPerUnit)))
           ELSE measurements
     IN  measurements' = with_shoulder @@ ("arm_span_cm" :> arm_span)
  /\ reads' = Append(reads, Read("widths", "scaled_vertices", TRUE))
  /\ pc' = "lengths"
  /\ UNCHANGED <<service_vars, calibration_measurements, tasks, joints, fp, entry, mesh_file, actual_height_cm, height_estimates, vertices,
                 vertices_scaled, scale_factor, scaled_vertices, landmarks, circ,
                 results, scale_computations>>

\* inseam, torso length, arm length and the metadata block, lines 306-334
MeasureLengths ==
  /\ pc = "lengths"
  /\ LET V == scaled_vertices
         inseam == RMul(RSub(landmarks.crotch, y_min_of(V)), Int2Rat(CmPerUnit))
         torso_length == RMul(RSub(landmarks.chest, landmarks.hip), Int2Rat(CmPerUnit))
         arm_length == RMul(RMul(y_range_of(V), Rat(30, 100)), Int2Rat(CmPerUnit))
     IN  measurements' =
           measurements @@ ("inseam_cm" :> inseam) @@ ("torso_length_cm" :> torso_length)
             @@ ("arm_length_cm" :> arm_length)
             @@ ("_metadata" :>
                   [actual_height_input_cm |-> Int2Rat(actual_height_cm),
                    method |-> "adaptive_landmark_detection",
                    calibrated |-> calibration_measurements # NoCalibration])
  /\ reads' = Append(reads, Read("lengths", "scaled_vertices", TRUE))
  /\ pc' = "done"
  /\ UNCHANGED <<service_vars, calibration_measurements, tasks, joints, fp, entry, mesh_file, actual_height_cm, height_estimates, vertices,
                 vertices_scaled, scale_factor, scaled_vertices, landmarks, circ,
                 results, scale_computations>>

\* find_anatomical_landmarks applied to the loaded vertices
FindAnatomicalLandmarks ==
  /\ pc = "anat_landmarks"
  /\ landmarks' = find_anatomical_landmarks(vertices)
  /\ reads' = Append(reads, Read("landmarks", "vertices", vertices_scaled))
  /\ pc' = "done"
  /\ UNCHANGED <<service_vars, calibration_measurements, tasks, joints, fp, entry, mesh_file, actual_height_cm, height_estimates, vertices,
                 vertices_scaled, scale_factor, scaled_vertices, circ,
                 measurements, results, scale_computations>>

\* extract_measurements_with_height: the measurements taken on scaled_vertices
AccurateMeasure ==
  /\ pc = "accurate_measure"
  /\ measurements' =
       AccurateMeasurements(scaled_vertices, actual_height_cm,
                            RMul(y_range_of(vertices), Int2Rat(CmPerUnit)), scale_factor)
  /\ reads' = Append(reads, Read("fixed_ratio", "scaled_vertices", TRUE))
  /\ pc' = "store"
  /\ UNCHANGED <<service_vars, calibration_measurements, tasks, joints, fp, entry, mesh_file, actual_height_cm, height_estimates, vertices,
                 vertices_scaled, scale_factor, scaled_vertices, landmarks, circ,
                 results, scale_computations>>

\* for height in height_estimates:
\*     results[f'{height}cm'] = extract_measurements_with_height(mesh_path, height)
StoreResult ==
  /\ pc = "store"
  /\ results' = [k \in DOMAIN results \cup {actual_height_cm} |->
                   IF k = actual_height_cm THEN measurements ELSE results[k]]
  /\ IF height_estimates = <<>>
     THEN /\ pc' = "done"
          /\ UNCHANGED <<service_vars, calibration_measurements, tasks, joints, actual_height_cm, height_estimates, scale_computations, reads>>
     ELSE /\ pc' = "load"
          /\ actual_height_cm' = Head(height_estimates)
          /\ height_estimates' = Tail(height_estimates)
          /\ scale_computations' = 0
          /\ reads' = <<>>
  /\ UNCHANGED <<service_vars, calibration_measurements, tasks, joints, fp, entry, mesh_file, vertices, vertices_scaled, scale_factor,
                 scaled_vertices, landmarks, circ, measurements>>

\* fix_measurements_and_pose.main, lines 190-194:
\*   if args.height: scale_factor = args.height / mesh_height_cm
\*                   vertices = vertices * scale_factor
MainScale ==
  /\ pc = "main_scale"
  /\ IF actual_height_cm # NoHeight
     THEN /\ scale_factor' = ScaleFactor(vertices, actual_height_cm)
          /\ vertices' = ScaleVertices(vertices, ScaleFactor(vertices, actual_height_cm))
          /\ vertices_scaled' = TRUE
          /\ fp' = [scale_factor |-> ScaleFactorFl(vertices, actual_height_cm),
                    scaled_vertices |->
                      ScaleVerticesFl(vertices, ScaleFactorFl(vertices, actual_height_cm))]
          /\ scale_computations' = scale_computations + 1
     ELSE UNCHANGED <<service_vars, calibration_measurements, tasks, joints, scale_factor, vertices, vertices_scaled, fp, scale_computations>>
  /\ pc' = "cmv_scale"
  /\ UNCHANGED <<service_vars, calibration_measurements, tasks, joints, entry, mesh_file, actual_height_cm, height_estimates,
                 scaled_vertices, landmarks, circ, measurements, results, reads>>

\* calculate_measurements_from_vertices(vertices, args.height), lines 26-38
FromVerticesScale ==
  /\ pc = "cmv_scale"
  /\ IF actual_height_cm # NoHeight
     THEN /\ scale_factor' = ScaleFactor(vertices, actual_height_cm)
          /\ fp' = [fp EXCEPT !.scale_factor =
                      ScaleFactorFl(fp.scaled_vertices, actual_height_cm)]
          /\ scale_computations' = scale_computations + 1
     ELSE /\ scale_factor' = Int2Rat(1)
          /\ UNCHANGED <<service_vars, calibration_measurements, tasks, joints, fp, scale_computations>>
  /\ pc' = "cmv_measure"
  /\ UNCHANGED <<service_vars, calibration_measurements, tasks, joints, entry, mesh_file, actual_height_cm, height_estimates, vertices,
                 vertices_scaled, scaled_vertices, landmarks, circ, measurements,
                 results, reads>>

\* calculate_measurements_from_vertices, lines 40-87
FromVerticesMeasure ==
  /\ pc = "cmv_measure"
  /\ measurements' = FromVerticesMeasurements(vertices, scale_factor, actual_height_cm)
  /\ reads' = Append(reads, Read("fixed_ratio", "vertices", vertices_scaled))
  /\ pc' = "done"
  /\ UNCHANGED <<service_vars, calibration_measurements, tasks, joints, fp, entry, mesh_file, actual_height_cm, height_estimates, vertices,
                 vertices_scaled, scale_factor, scaled_vertices, landmarks, circ,
                 results, scale_computations>>

\* handler: `if not height: return {"error": "height is required"}`, the only
\* test of the height before run_pipeline(height_cm=float(height))
HandlerValidate ==
  /\ pc = "validate" /\ entry = "handler"
  /\ pc' = IF actual_height_cm = NoHeight THEN "rejected" ELSE "pipeline"
  /\ UNCHANGED <<service_vars, calibration_measurements, tasks, joints, fp, entry, mesh_file, actual_height_cm, height_estimates, vertices,
                 vertices_scaled, scale_factor, scaled_vertices, landmarks, circ,
                 measurements, results, scale_computations, reads>>

\* results = run_pipeline(...); standardized_measurements["height"] = float(height)
HandlerPipeline ==
  /\ pc = "pipeline"
  /\ measurements' = [k \in {"height"} |-> Int2Rat(actual_height_cm)]
  /\ pc' = "done"
  /\ UNCHANGED <<service_vars, calibration_measurements, tasks, joints, fp, entry, mesh_file, actual_height_cm, height_estimates, vertices,
                 vertices_scaled, scale_factor, scaled_vertices, landmarks, circ,
                 results, scale_computations, reads>>

\* AvatarCreateRequest: height: int = Field(..., ge=100, le=250)
RequestValidate ==
  /\ pc = "validate" /\ entry = "backend"
  /\ pc' = IF actual_height_cm >= MinRequestHeight /\ actual_height_cm <= MaxRequestHeight
           THEN "queued" ELSE "rejected"
  /\ UNCHANGED <<service_vars, calibration_measurements, tasks, joints, fp, entry, mesh_file, actual_height_cm, height_estimates, vertices,
                 vertices_scaled, scale_factor, scaled_vertices, landmarks, circ,
                 measurements, results, scale_computations, reads>>

Next ==
  \/ Load
  \/ ComputeScale
  \/ ApplyScale
  \/ FindLandmarks
  \/ \E i \in DOMAIN Circumferences : MeasureCircumference(Circumferences[i])
  \/ MeasureWidths
  \/ MeasureLengths
  \/ FindAnatomicalLandmarks
  \/ AccurateMeasure
  \/ StoreResult
  \/ MainScale
  \/ FromVerticesScale
  \/ FromVerticesMeasure
  \/ HandlerValidate
  \/ HandlerPipeline
  \/ RequestValidate

Spec == Init /\ [][Next]_vars

\* the same program started on any input
SpecAnyInput == InitAnyInput /\ [][Next]_vars

----------------------------------------------------------------------------
(* The statements of find_adaptive_landmarks and of the measurement block  *)
(* of extract_measurements_adaptive, one task each, evaluated in any order *)
(* that respects OrderedAfter.  A task that reads a landmark no task has   *)
(* stored yet ends the run with a KeyError.                                *)

LandmarkTasks == {"waist", "chest", "hip", "neck", "knee", "thigh", "crotch"}

\* the landmark each measurement is taken at
MeasuredAt ==
  [m_chest |-> "chest", m_waist |-> "waist", m_hip |-> "hip", m_neck |-> "neck",
   m_thigh |-> "thigh", m_shoulder |-> "chest", m_inseam |-> "crotch"]

MeasurementTasks == DOMAIN MeasuredAt \cup {"m_torso", "m_arm"}
Tasks == LandmarkTasks \cup MeasurementTasks

\* the order kept: thigh after hip and knee, torso length after chest and
\* hip, and a measurement after the landmark it is taken at
OrderedAfter(t) ==
  CASE t = "thigh" -> {"hip", "knee"}
    [] t = "m_torso" -> {"chest", "hip"}
    [] t \in DOMAIN MeasuredAt -> {MeasuredAt[t]}
    [] OTHER -> {}

\* no vertex lies in the centre band of the crotch search
CenterBandEmpty(V) ==
  LET xs == XsOf(V, DOMAIN V)
      x_center == RDiv(RAdd(RMinOf(xs), RMaxOf(xs)), Int2Rat(2))
      band == RMul(RSub(RMaxOf(xs), RMinOf(xs)), Rat(15, 100))
  IN  \A i \in DOMAIN V : ~RLt(RAbs(RSub(V[i][1], x_center)), band)

\* a torso length taken from the neck landmark down to the hip landmark
TaskReadsTorsoFromNeck(t, V) ==
  CASE t = "thigh" -> {"hip", "knee"}
    [] t = "crotch" -> IF CenterBandEmpty(V) THEN {"hip"} ELSE {}
    [] t = "m_torso" -> {"neck", "hip"}
    [] t \in DOMAIN MeasuredAt -> {MeasuredAt[t]}
    [] OTHER -> {}

\* the landmarks the statements of a task read
TaskReads(t, V) ==
  CASE t = "thigh" -> {"hip", "knee"}
    [] t = "crotch" -> IF CenterBandEmpty(V) THEN {"hip"} ELSE {}
    [] t = "m_torso" -> {"chest", "hip"}
    [] t \in DOMAIN MeasuredAt -> {MeasuredAt[t]}
    [] OTHER -> {}

\* the four window searches: nothing but the vertex array goes in
SearchTask(t, V, known) ==
  CASE t = "waist" -> OrFallback(V, waist_search(V), Waist.fallback)
    [] t = "chest" -> OrFallback(V, chest_search(V), Chest.fallback)
    [] t = "hip"   -> OrFallback(V, hip_search(V), Hip.fallback)
    [] t = "neck"  -> OrFallback(V, neck_search(V), Neck.fallback)

\* knee_y is a local of find_adaptive_landmarks; it is kept next to the
\* landmarks under the key "knee"
LandmarkValue(t, V, known) ==
  CASE t = "knee" -> knee_search(V)
    [] t = "thigh" -> ThighLandmark(V, known.hip, known.knee)
    [] t = "crotch" ->
         CrotchLandmark(V, IF "hip" \in DOMAIN known THEN known.hip ELSE NoY)
    [] OTHER -> SearchTask(t, V, known)

\* `if chest_circ: measurements['chest_circumference_cm'] = chest_circ`
CircEntry(name, V, lm) ==
  StoreCirc(<<>>, CircKey(name),
            EstimateRun(Policy[name].method, V, lm[name], Policy[name].thick).ret)

\* the entries a measurement task adds to the dict
MeasurementEntries(t, V, lm) ==
  CASE t = "m_shoulder" ->
         LET shoulder_mask == SliceMask(V, lm.chest, RMul(y_range_of(V), Rat(2, 100)))
         IN  IF Cardinality(shoulder_mask) > 0
             THEN ("shoulder_width_cm" :>
                     RMul(WidthOf(V, shoulder_mask), Int2Rat(CmPerUnit)))
             ELSE <<>>
    [] t = "m_arm" ->
         ("arm_span_cm" :> RMul(WidthOf(V, DOMAIN V), Int2Rat(CmPerUnit)))
         @@ ("arm_length_cm" :>
               RMul(RMul(y_range_of(V), Rat(30, 100)), Int2Rat(CmPerUnit)))
    [] t = "m_inseam" ->
         ("inseam_cm" :> RMul(RSub(lm.crotch, y_min_of(V)), Int2Rat(CmPerUnit)))
    [] t = "m_torso" ->
         ("torso_length_cm" :> RMul(RSub(lm.chest, lm.hip), Int2Rat(CmPerUnit)))
    [] OTHER -> CircEntry(MeasuredAt[t], V, lm)

\* measurements['height_cm'] and measurements['_metadata']
HeaderEntries(height_cm) ==
  ("height_cm" :> Int2Rat(height_cm))
  @@ ("_metadata" :>
        [actual_height_input_cm |-> Int2Rat(height_cm),
         method |-> "adaptive_landmark_detection",
         calibrated |-> FALSE])

RECURSIVE MergeEntries(_, _, _)
MergeEntries(T, V, lm) ==
  IF T = {} THEN <<>>
  ELSE LET t == CHOOSE x \in T : TRUE
       IN  MeasurementEntries(t, V, lm) @@ MergeEntries(T \ {t}, V, lm)

\* what extract_measurements_adaptive returns for a mesh and a height
extract_measurements_adaptive(mesh, height_cm) ==
  LET returned ==
        UNION {{HeaderEntries(height_cm) @@ MergeEntries(MeasurementTasks, V, lm) :
                  lm \in {find_adaptive_landmarks(V)}} :
                V \in {ScaleVertices(mesh, ScaleFactor(mesh, height_cm))}}
  IN  CHOOSE m \in returned : TRUE

Evaluate(t) ==
  /\ pc = "landmarks"
  /\ t \notin tasks
  /\ OrderedAfter(t) \subseteq tasks
  /\ IF TaskReads(t, scaled_vertices) \subseteq tasks
     THEN /\ tasks' = tasks \cup {t}
          /\ landmarks' = IF t \in LandmarkTasks
                          THEN landmarks @@ (t :> LandmarkValue(t, scaled_vertices, landmarks))
                          ELSE landmarks
          /\ measurements' = IF t \in MeasurementTasks
                             THEN measurements
                                  @@ MeasurementEntries(t, scaled_vertices, landmarks)
                             ELSE measurements
          /\ UNCHANGED <<service_vars, calibration_measurements, pc, results>>
     ELSE /\ pc' = "KeyError"
          /\ results' = [task |-> t]
          /\ UNCHANGED <<service_vars, calibration_measurements, tasks, landmarks, measurements>>
  /\ UNCHANGED <<service_vars, calibration_measurements, joints, fp, entry, mesh_file, actual_height_cm, height_estimates,
                 vertices, vertices_scaled, scale_factor, scaled_vertices, circ,
                 scale_computations, reads>>

\* every statement has been evaluated: return measurements
Return ==
  /\ pc = "landmarks"
  /\ tasks = Tasks
  /\ measurements' = measurements @@ HeaderEntries(actual_height_cm)
  /\ pc' = "done"
  /\ UNCHANGED <<service_vars, calibration_measurements, tasks, joints, fp, entry, mesh_file, actual_height_cm,
                 height_estimates, vertices, vertices_scaled, scale_factor,
                 scaled_vertices, landmarks, circ, results, scale_computations, reads>>

\* a body with all rings and a body whose vertices all have x = 0
OrderMeshes ==
  {BuildMesh(0, FALSE, MinSearchVerts + 1, Rings, <<1, MaxHalfWidth, 2, MaxHalfWidth, 1>>),
   BuildShapedMesh("line_z", MinSearchVerts + 1, <<2, 2, 2, 2, 2>>)}

InitAnyOrder ==
  /\ entry = "adaptive"
  /\ mesh_file \in OrderMeshes
  /\ actual_height_cm = 100
  /\ height_estimates = <<>>
  /\ Start

NextAnyOrder ==
  \/ Load
  \/ ComputeScale
  \/ ApplyScale
  \/ \E t \in Tasks : Evaluate(t)
  \/ Return

SpecAnyOrder == InitAnyOrder /\ [][NextAnyOrder]_vars

----------------------------------------------------------------------------
(* extract_measurements_adaptive called twice in one process with the same *)
(* arguments.  The function keeps nothing between calls: every name it     *)
(* assigns is a local, and the module has no global state.                 *)

CallAgain ==
  /\ pc = "done"
  /\ "first" \notin DOMAIN results
  /\ results' = [first |-> measurements]
  /\ pc' = "load"
  /\ vertices' = Unset
  /\ vertices_scaled' = FALSE
  /\ scale_factor' = Unset
  /\ scaled_vertices' = Unset
  /\ fp' = [scale_factor |-> Unset, scaled_vertices |-> Unset]
  /\ landmarks' = Unset
  /\ circ' = Unset
  /\ measurements' = Unset
  /\ scale_computations' = 0
  /\ reads' = <<>>
  /\ UNCHANGED <<service_vars, calibration_measurements, tasks, joints, entry, mesh_file, actual_height_cm, height_estimates>>

\* the input meshes whose rings pass the validity test of the searches
DenseMeshes ==
  {BuildMesh(y0, ft, MinSearchVerts + 1, pr, w) :
     y0 \in FloorLevels, ft \in BOOLEAN, pr \in RingSets, w \in WidthProfiles}
  \cup {BuildShapedMesh(sh, MinSearchVerts + 1, w) : sh \in Shapes, w \in WidthProfiles}

InitTwoCalls ==
  /\ entry = "adaptive"
  /\ mesh_file \in DenseMeshes
  /\ actual_height_cm \in ActualHeights
  /\ height_estimates = <<>>
  /\ Start

NextTwoCalls ==
  \/ Load
  \/ ComputeScale
  \/ ApplyScale
  \/ FindLandmarks
  \/ \E i \in DOMAIN Circumferences : MeasureCircumference(Circumferences[i])
  \/ MeasureWidths
  \/ MeasureLengths
  \/ CallAgain

SpecTwoCalls == InitTwoCalls /\ [][NextTwoCalls]_vars

----------------------------------------------------------------------------
(* extract_measurements_adaptive with calibration_measurements given *)

InitCalibrated ==
  /\ entry = "calibrated"
  /\ mesh_file \in DenseMeshes
  /\ actual_height_cm \in ActualHeights
  /\ height_estimates = <<>>
  /\ Start

NextCalibrated ==
  \/ Load
  \/ ComputeScale
  \/ ApplyScale
  \/ FindLandmarks
  \/ \E i \in DOMAIN Circumferences : MeasureCircumference(Circumferences[i])
  \/ MeasureWidths
  \/ MeasureLengths

SpecCalibrated == InitCalibrated /\ [][NextCalibrated]_vars

----------------------------------------------------------------------------
(* The joint-based run, extract_measurements_smpl_joints.py:112-365.  The  *)
(* SMPL forward pass gives the vertices and the joints of one body;        *)
(* mesh_file holds its vertices.                                           *)

\* SMPL_JOINTS, with the place of each joint in the body: x, height above the
\* floor, z, in the units of RawHeight
JointPlaces ==
  [pelvis         |-> <<0, 11, 0>>,
   left_knee      |-> <<1, 7, 0>>,
   right_knee     |-> <<-1, 7, 0>>,
   left_ankle     |-> <<1, 1, 0>>,
   right_ankle    |-> <<-1, 1, 0>>,
   spine3         |-> <<0, 16, 0>>,
   neck           |-> <<0, 18, 0>>,
   left_shoulder  |-> <<2, 17, 0>>,
   right_shoulder |-> <<-2, 17, 0>>,
   left_wrist     |-> <<3, 10, 1>>,
   right_wrist    |-> <<-3, 10, 0>>]

\* output.joints[0]: the joints of the body whose vertices are V
SmplJoints(V) ==
  [j \in DOMAIN JointPlaces |->
     <<Int2Rat(JointPlaces[j][1]),
       RAdd(y_min_of(V), Int2Rat(JointPlaces[j][2])),
       Int2Rat(JointPlaces[j][3])>>]

\* joints * scale_factor
ScaleJoints(J, s) ==
  [j \in DOMAIN J |-> <<RMul(J[j][1], s), RMul(J[j][2], s), RMul(J[j][3], s)>>]

\* a joint array that the scaling of the vertices leaves as generated
JointsLeftUnscaled(J, s) == J

\* joints = joints * scale_factor
JointsAfterScaling(J, s) == ScaleJoints(J, s)

\* (np.linalg.norm(p - q) * 100) ^ 2
DistSq(p, q) ==
  LET d(i) == RSub(p[i], q[i])
  IN  RMul(RAdd(RAdd(RMul(d(1), d(1)), RMul(d(2), d(2))), RMul(d(3), d(3))),
           Int2Rat(CmPerUnit * CmPerUnit))

\* np.linalg.norm(p - q) * 100
Distance(p, q) == SumOfRoots((DistSq(p, q) :> 1))

\* (sqrt(l1) + sqrt(l2)) / 2
MeanOfRoots(l1, l2) ==
  LET h1 == RDiv(l1, Int2Rat(4))
      h2 == RDiv(l2, Int2Rat(4))
  IN  SumOfRoots(IF h1 = h2 THEN (h1 :> 2) ELSE (h1 :> 1) @@ (h2 :> 1))

MidPoint(p, q) ==
  [i \in 1..3 |-> RDiv(RAdd(p[i], q[i]), Int2Rat(2))]

\* chest_y, hip_y, neck_y and thigh_y, lines 218-220, 264, 277, 290-294
JointLevel(name, J) ==
  CASE name = "chest" ->
         RSub(RDiv(RAdd(J.left_shoulder[2], J.right_shoulder[2]), Int2Rat(2)),
              Rat(5, 100))
    [] name = "hip" -> RAdd(J.pelvis[2], Rat(3, 100))
    [] name = "neck" -> J.neck[2]
    [] name = "thigh" ->
         RDiv(RAdd(J.pelvis[2],
                   RDiv(RAdd(J.left_knee[2], J.right_knee[2]), Int2Rat(2))),
              Int2Rat(2))

JointPolicy ==
  [chest |-> [thick |-> Rat(3, 100), next |-> "j_waist"],
   hip   |-> [thick |-> Rat(4, 100), next |-> "j_neck"],
   neck  |-> [thick |-> Rat(2, 100), next |-> "j_thigh"],
   thigh |-> [thick |-> Rat(3, 100), next |-> "j_widths"]]

\* search_range = np.linspace(spine3_y, pelvis_y, 20)
WaistSamples == 20

Infinite == [kind |-> "inf"]

\* the loop of lines 242-246 from sample k on
RECURSIVE WaistScan(_, _, _, _, _)
WaistScan(V, J, k, min_circ, waist_y) ==
  IF k = WaistSamples THEN [min_circ |-> min_circ, waist_y |-> waist_y]
  ELSE LET y == Linspace(J.spine3[2], J.pelvis[2], WaistSamples, k)
           c == CHOOSE r \in {calculate_circumference_from_slice(V, y, Rat(2, 100))} : TRUE
       IN  IF CircTruthy(c) /\ (min_circ = Infinite \/ Below(c, min_circ))
           THEN WaistScan(V, J, k + 1, c, y)
           ELSE WaistScan(V, J, k + 1, min_circ, waist_y)

\* output = smpl(...); vertices = output.vertices[0]; joints = output.joints[0]
SmplForward ==
  /\ pc = "generate"
  /\ vertices' = mesh_file
  /\ joints' = SmplJoints(mesh_file)
  /\ vertices_scaled' = FALSE
  /\ pc' = "j_scale"
  /\ UNCHANGED <<service_vars, calibration_measurements, tasks, fp, entry, mesh_file, actual_height_cm, height_estimates,
                 scale_factor, scaled_vertices, landmarks, circ, measurements,
                 results, scale_computations, reads>>

\* lines 196-198
JointScale ==
  /\ pc = "j_scale"
  /\ scale_factor' = ScaleFactor(vertices, actual_height_cm)
  /\ scale_computations' = scale_computations + 1
  /\ pc' = "j_apply"
  /\ UNCHANGED <<service_vars, calibration_measurements, tasks, joints, fp, entry, mesh_file, actual_height_cm, height_estimates,
                 vertices, vertices_scaled, scaled_vertices, landmarks, circ,
                 measurements, results, reads>>

\* vertices = vertices * scale_factor; joints = joints * scale_factor;
\* measurements['height_cm'] = actual_height_cm
JointApplyScale ==
  /\ pc = "j_apply"
  /\ vertices' = ScaleVertices(vertices, scale_factor)
  /\ vertices_scaled' = TRUE
  /\ joints' = JointsAfterScaling(joints, scale_factor)
  /\ measurements' = ("height_cm" :> Int2Rat(actual_height_cm))
  /\ pc' = "j_chest"
  /\ UNCHANGED <<service_vars, calibration_measurements, tasks, fp, entry, mesh_file, actual_height_cm, height_estimates,
                 scale_factor, scaled_vertices, landmarks, circ, results,
                 scale_computations, reads>>

\* chest, hip, neck and thigh: the level from the joints, the slice from the
\* vertices
JointCircumference(name) ==
  /\ pc = "j_" \o name
  /\ LET y == JointLevel(name, joints)
         run == calculate_circumference_from_slice_run(vertices, y, JointPolicy[name].thick)
     IN  /\ landmarks' = landmarks @@ (name :> y)
         /\ circ' = circ @@ (name :> run)
         /\ measurements' = StoreCirc(measurements, CircKey(name), run.ret)
  /\ reads' = Append(reads, Read(name, "vertices", vertices_scaled))
  /\ pc' = JointPolicy[name].next
  /\ UNCHANGED <<service_vars, calibration_measurements, tasks, joints, fp, entry, mesh_file, actual_height_cm, height_estimates,
                 vertices, vertices_scaled, scale_factor, scaled_vertices,
                 results, scale_computations>>

\* the narrowest slice between spine3 and pelvis, else the slice at their
\* midpoint, lines 234-257
JointWaist ==
  /\ pc = "j_waist"
  /\ LET found == WaistScan(vertices, joints, 0, Infinite, joints.spine3[2])
         mid == RDiv(RAdd(joints.spine3[2], joints.pelvis[2]), Int2Rat(2))
         waist_circ == calculate_circumference_from_slice(vertices, mid, Rat(3, 100))
     IN  IF found.min_circ # Infinite
         THEN /\ landmarks' = landmarks @@ ("waist" :> found.waist_y)
              /\ measurements' =
                   measurements @@ ("waist_circumference_cm" :> found.min_circ)
         ELSE /\ landmarks' = landmarks @@ ("waist" :> mid)
              /\ measurements' =
                   StoreCirc(measurements, "waist_circumference_cm", waist_circ)
  /\ reads' = Append(reads, Read("waist", "vertices", vertices_scaled))
  /\ pc' = "j_hip"
  /\ UNCHANGED <<service_vars, calibration_measurements, tasks, joints, fp, entry, mesh_file, actual_height_cm, height_estimates,
                 vertices, vertices_scaled, scale_factor, scaled_vertices, circ,
                 results, scale_computations>>

\* shoulder width and arm span between joints, lines 309-320
JointWidths(J) ==
  ("shoulder_width_cm" :> Distance(J.left_shoulder, J.right_shoulder))
    @@ ("arm_span_cm" :> Distance(J.left_wrist, J.right_wrist))

\* arm length, inseam and torso length between joints, lines 328-355
JointLengths(J) ==
  ("arm_length_cm" :>
     MeanOfRoots(DistSq(J.left_shoulder, J.left_wrist),
                 DistSq(J.right_shoulder, J.right_wrist)))
    @@ ("inseam_cm" :>
          MeanOfRoots(DistSq(J.pelvis, J.left_ankle), DistSq(J.pelvis, J.right_ankle)))
    @@ ("torso_length_cm" :>
          Distance(MidPoint(J.left_shoulder, J.right_shoulder), J.pelvis))

JointMeasureWidths ==
  /\ pc = "j_widths"
  /\ measurements' = JointWidths(joints) @@ measurements
  /\ pc' = "j_lengths"
  /\ UNCHANGED <<service_vars, calibration_measurements, tasks, joints, fp, entry, mesh_file, actual_height_cm, height_estimates,
                 vertices, vertices_scaled, scale_factor, scaled_vertices, landmarks,
                 circ, results, scale_computations, reads>>

JointMeasureLengths ==
  /\ pc = "j_lengths"
  /\ measurements' =
       JointLengths(joints) @@ measurements
         @@ ("_metadata" :>
               [actual_height_input_cm |-> Int2Rat(actual_height_cm),
                method |-> "smpl_joint_based"])
  /\ pc' = "done"
  /\ UNCHANGED <<service_vars, calibration_measurements, tasks, joints, fp, entry, mesh_file, actual_height_cm, height_estimates,
                 vertices, vertices_scaled, scale_factor, scaled_vertices, landmarks,
                 circ, results, scale_computations, reads>>

InitJoints ==
  /\ entry = "smpl_joints"
  /\ mesh_file \in DenseMeshes
  /\ actual_height_cm \in ActualHeights
  /\ height_estimates = <<>>
  /\ Start

NextJoints ==
  \/ SmplForward
  \/ JointScale
  \/ JointApplyScale
  \/ \E name \in DOMAIN JointPolicy : JointCircumference(name)
  \/ JointWaist
  \/ JointMeasureWidths
  \/ JointMeasureLengths

SpecJoints == InitJoints /\ [][NextJoints]_vars

----------------------------------------------------------------------------
(* The backend's avatar jobs: routes/avatar.py, services/runpod.py and
   services/supabase.py.  A coroutine gives up control only where an await
   suspends: at the requests of httpx in submit_avatar_job and get_job_status
   and at asyncio.sleep.  The methods of SupabaseService are coroutines around
   blocking calls, so awaiting them does not suspend.  One action is the code
   between two suspensions; what the services answer are its inputs. *)

\* two POST /create requests of one user
JobIds == {"job1", "job2"}
Users == {"user1"}
UserOf(job_id) == "user1"

\* class ProcessingStatus
ProcessingStatus == {"pending", "queued", "processing", "completed", "failed"}

\* for attempt in range(max_attempts)
max_attempts == 60

\* the table starts with or without a row for the user
PassportTables == {<<>>, [u \in Users |-> "pending"]}

\* .update(...).eq("user_id", user_id).execute(): the rows that match are
\* written, or the request raises and nothing is written
DbOutcomes == {"executed", "raises"}

\* the table after update_fit_passport_status / update_fit_passport_with_results
update_fit_passport_status(table, user_id, status, outcome) ==
  IF outcome = "executed" /\ user_id \in DOMAIN table
  THEN [table EXCEPT ![user_id] = status]
  ELSE table

\* an update whose result is not looked at
UpdateReturnsTrue(table, user_id, outcome) ==
  TRUE

\* return len(response.data) > 0
UpdateReturns(table, user_id, outcome) ==
  outcome = "executed" /\ user_id \in DOMAIN table

\* what get_job_status answers: the status RunPod reports with or without an
\* output, "ERROR" for a response other than 200, or an exception of httpx
RunpodStatuses == {"IN_QUEUE", "IN_PROGRESS", "COMPLETED", "FAILED", "CANCELLED",
                   "UNKNOWN", "ERROR"}
StatusResults ==
  {[status |-> st, output |-> "None"] : st \in RunpodStatuses \cup {"raises"}}
  \cup {[status |-> "COMPLETED", output |-> "files"]}

\* jobs[job_id] = {...}: progress, message and the timestamps are left out
QueuedJob(job_id) ==
  [user_id |-> UserOf(job_id), status |-> "queued", runpod_job_id |-> "None",
   avatar_url |-> "None", error |-> "None"]

At(job_id, where) == background[job_id].pc = where
\* the loop variable is live inside the polling loop only
Goto(job_id, where) ==
  background' = [background EXCEPT ![job_id].pc = where, ![job_id].attempt = 0]

\* the coroutine ends with the job, the last polled status and the table as given
Ended(job_id, runpod_status, status, error, avatar_url, table) ==
  /\ jobs' = [jobs EXCEPT ![job_id].status = status, ![job_id].error = error,
                          ![job_id].avatar_url = avatar_url]
  /\ background' = [background EXCEPT
                      ![job_id] = [pc |-> "done", attempt |-> 0,
                                   runpod_status |-> runpod_status]]
  /\ fit_passports' = table

\* a handler that only prints the exception
ExceptionOnlyLogged(job_id, runpod_status, e, table) ==
  Ended(job_id, runpod_status, jobs[job_id].status, "None", "None", table)

\* except Exception as e: the job is marked failed, then
\* update_fit_passport_status(status="failed") is called on the table as it is
HandleException(job_id, runpod_status, e, table) ==
  \E outcome \in DbOutcomes :
    Ended(job_id, runpod_status, "failed", e, "None",
          update_fit_passport_status(table, UserOf(job_id), "failed", outcome))

\* create_avatar: the request arrives while no job of the user has finished;
\* the status is written, the job is stored and the task is added
CreateAvatar(job_id) ==
  /\ At(job_id, "request")
  /\ \A other \in JobIds : ~At(other, "done")
  /\ \E outcome \in DbOutcomes :
       /\ fit_passports' = update_fit_passport_status(fit_passports, UserOf(job_id),
                                                      "processing", outcome)
       /\ IF outcome = "raises"
          THEN Goto(job_id, "error_500") /\ UNCHANGED jobs
          ELSE /\ jobs' = (job_id :> QueuedJob(job_id)) @@ jobs
               /\ Goto(job_id, "task")
  /\ UNCHANGED <<script_vars, celery, pipeline>>

\* process_avatar_job up to await submit_avatar_job
StartProcessing(job_id) ==
  /\ At(job_id, "task")
  /\ jobs' = [jobs EXCEPT ![job_id].status = "processing"]
  /\ Goto(job_id, "submit")
  /\ UNCHANGED <<script_vars, fit_passports, celery, pipeline>>

\* submit_avatar_job returned a job id or None
Submitted(job_id) ==
  /\ At(job_id, "submit")
  /\ \E runpod_job_id \in {"None", "runpod"} :
       IF runpod_job_id = "None"
       THEN HandleException(job_id, "None", "Failed to submit job to GPU", fit_passports)
       ELSE /\ jobs' = [jobs EXCEPT ![job_id].runpod_job_id = runpod_job_id]
            /\ Goto(job_id, "poll")
            /\ UNCHANGED fit_passports
  /\ UNCHANGED <<script_vars, celery, pipeline>>

\* the last assignments without the return: the loop goes on polling
CompletedWithoutReturn(job_id, table) ==
  /\ jobs' = [jobs EXCEPT ![job_id].status = "completed",
                          ![job_id].avatar_url = "avatar_url"]
  /\ background' = [background EXCEPT ![job_id].runpod_status = "COMPLETED"]
  /\ fit_passports' = table

\* status = completed, ..., return
Completed(job_id, table) ==
  Ended(job_id, "COMPLETED", "completed", "None", "avatar_url", table)

\* the branch of COMPLETED: the output is read, the files are uploaded
\* (upload_avatar of the old format may raise), the results are written and
\* read back
OnCompleted(job_id, output) ==
  IF output = "None"
  THEN HandleException(job_id, "COMPLETED", "AttributeError", fit_passports)
  ELSE \E upload_raised \in BOOLEAN, outcome \in DbOutcomes, read_raised \in BOOLEAN :
         LET user_id == UserOf(job_id)
             table == update_fit_passport_status(fit_passports, user_id, "completed",
                                                 outcome)
             db_update_success == UpdateReturns(fit_passports, user_id, outcome)
         IN CASE upload_raised ->
                   HandleException(job_id, "COMPLETED", "upload raised", fit_passports)
              [] ~upload_raised /\ outcome = "raises" ->
                   HandleException(job_id, "COMPLETED", "update raised", table)
              [] ~upload_raised /\ outcome # "raises" /\ ~db_update_success ->
                   HandleException(job_id, "COMPLETED", "Failed to update database",
                                   table)
              [] OTHER ->
                   IF read_raised
                   THEN HandleException(job_id, "COMPLETED", "read back raised", table)
                   ELSE Completed(job_id, table)

\* one pass of the polling loop: sleep, get_job_status, the branch on the
\* status, and the timeout after the last pass
Poll(job_id) ==
  /\ At(job_id, "poll")
  /\ \E status_result \in StatusResults :
       CASE status_result.status = "raises" ->
              HandleException(job_id, background[job_id].runpod_status, "httpx",
                              fit_passports)
         [] status_result.status = "COMPLETED" ->
              OnCompleted(job_id, status_result.output)
         [] status_result.status \in {"FAILED", "CANCELLED"} ->
              HandleException(job_id, status_result.status, "GPU processing failed",
                              fit_passports)
         [] OTHER ->
              IF background[job_id].attempt + 1 < max_attempts
              THEN /\ background' = [background EXCEPT
                                        ![job_id].attempt = background[job_id].attempt + 1,
                                        ![job_id].runpod_status = status_result.status]
                   /\ UNCHANGED <<jobs, fit_passports>>
              ELSE HandleException(job_id, status_result.status,
                                   "Avatar creation timed out", fit_passports)
  /\ UNCHANGED <<script_vars, celery, pipeline>>

process_avatar_job(job_id) ==
  \/ StartProcessing(job_id)
  \/ Submitted(job_id)
  \/ Poll(job_id)

InitJobs ==
  /\ entry = "routes"
  /\ ScriptIdle
  /\ jobs = <<>>
  /\ fit_passports \in PassportTables
  /\ background = [job_id \in JobIds |->
                     [pc |-> "request", attempt |-> 0, runpod_status |-> "None"]]
  /\ celery = <<>>
  /\ pipeline = <<>>

NextJobs ==
  \/ \E job_id \in JobIds : CreateAvatar(job_id)
  \/ \E job_id \in JobIds : StartProcessing(job_id)
  \/ \E job_id \in JobIds : Submitted(job_id)
  \/ \E job_id \in JobIds : Poll(job_id)

SpecJobs == InitJobs /\ [][NextJobs]_vars

\* one request only: the second is never sent
InitOneJob ==
  /\ entry = "routes"
  /\ ScriptIdle
  /\ jobs = <<>>
  /\ fit_passports \in PassportTables
  /\ background = [job_id \in JobIds |->
                     [pc |-> IF job_id = "job1" THEN "request" ELSE "not_sent",
                      attempt |-> 0, runpod_status |-> "None"]]
  /\ celery = <<>>
  /\ pipeline = <<>>

SpecOneJob == InitOneJob /\ [][NextJobs]_vars

\* the event loop runs every coroutine that can resume
SpecJobsFair ==
  /\ InitOneJob
  /\ [][NextJobs]_vars
  /\ \A job_id \in JobIds : WF_vars(process_avatar_job(job_id))

----------------------------------------------------------------------------
(* The Celery task of tasks/avatar_tasks.py.  A worker runs one execution of
   the task from its first statement to its return or raise; the broker
   starts the next execution when the task asked for a retry. *)

\* @celery_app.task(bind=True, max_retries=3)
max_retries == 3

\* a retry that is still granted when the retries made equal max_retries
RetryGrantedOnceMore(retries) ==
  retries <= max_retries

\* Task.retry: a retry is scheduled while request.retries < max_retries,
\* otherwise exc is raised
RetryGranted(retries) ==
  retries < max_retries

TaskUser == "user1"

\* the task before the worker picks it up
Delayed ==
  [pc |-> "queued", retries |-> 0, executions |-> 0, submitted |-> 0, attempt |-> 0]

\* except Exception as e: update_fit_passport_status(status="failed"), then
\* raise self.retry(exc=e, countdown=30); an exception of the status write
\* leaves the handler before self.retry
TaskExcept(task, table) ==
  \E outcome \in DbOutcomes :
    /\ fit_passports' = update_fit_passport_status(table, TaskUser, "failed", outcome)
    /\ celery' = [task EXCEPT
                    !.attempt = 0,
                    !.pc = CASE outcome = "raises" -> "raised"
                             [] outcome # "raises" /\ RetryGranted(task.retries) -> "queued"
                             [] OTHER -> "failed",
                    !.retries = IF outcome # "raises" /\ RetryGranted(task.retries)
                                THEN task.retries + 1 ELSE task.retries]

\* an execution starts: update_fit_passport_status(status="processing")
TaskStart ==
  /\ celery.pc = "queued"
  /\ \E outcome \in DbOutcomes :
       LET table == update_fit_passport_status(fit_passports, TaskUser, "processing",
                                               outcome)
           started == [celery EXCEPT !.executions = celery.executions + 1]
       IN IF outcome = "raises"
          THEN TaskExcept(started, table)
          ELSE /\ fit_passports' = table
               /\ celery' = [started EXCEPT !.pc = "submit"]
  /\ UNCHANGED <<script_vars, jobs, background, pipeline>>

\* runpod_job_id = submit_avatar_job(...); if not runpod_job_id: raise
TaskSubmit ==
  /\ celery.pc = "submit"
  /\ \E runpod_job_id \in {"None", "runpod"} :
       IF runpod_job_id = "None"
       THEN TaskExcept(celery, fit_passports)
       ELSE /\ celery' = [celery EXCEPT !.pc = "poll", !.attempt = 0,
                                         !.submitted = celery.submitted + 1]
            /\ UNCHANGED fit_passports
  /\ UNCHANGED <<script_vars, jobs, background, pipeline>>

\* one pass of the task's polling loop; the result of
\* update_fit_passport_with_results is not looked at
TaskPoll ==
  /\ celery.pc = "poll"
  /\ \E status_result \in StatusResults :
       CASE status_result.status = "raises" ->
              TaskExcept(celery, fit_passports)
         [] status_result.status = "COMPLETED" ->
              IF status_result.output = "None"
              THEN TaskExcept(celery, fit_passports)
              ELSE \E outcome \in DbOutcomes :
                     IF outcome = "raises"
                     THEN TaskExcept(celery, fit_passports)
                     ELSE /\ fit_passports' =
                               update_fit_passport_status(fit_passports, TaskUser,
                                                          "completed", outcome)
                          /\ celery' = [celery EXCEPT !.pc = "succeeded", !.attempt = 0]
         [] status_result.status \in {"FAILED", "CANCELLED"} ->
              TaskExcept(celery, fit_passports)
         [] OTHER ->
              IF celery.attempt + 1 < max_attempts
              THEN /\ celery' = [celery EXCEPT !.attempt = celery.attempt + 1]
                   /\ UNCHANGED fit_passports
              ELSE TaskExcept(celery, fit_passports)
  /\ UNCHANGED <<script_vars, jobs, background, pipeline>>

InitTask ==
  /\ entry = "create_avatar_task"
  /\ ScriptIdle
  /\ jobs = <<>>
  /\ background = <<>>
  /\ fit_passports \in PassportTables
  /\ celery = Delayed
  /\ pipeline = <<>>

NextTask ==
  \/ TaskStart
  \/ TaskSubmit
  \/ TaskPoll

SpecTask == InitTask /\ [][NextTask]_vars

----------------------------------------------------------------------------
(* run_pipeline of pipelines/run_avatar_pipeline.py: six steps in one try
   block.  What a step does to the files is its outcome: it returns its
   result, returns None, or raises. *)

PipelineHeights == {100, 170, 250}
PipelineGenders == {"male", "female", "neutral"}
StepNumbers == 1..6

\* results = {"success": False, "error": None, "outputs": {}}
NewResults == [success |-> FALSE, error |-> "None", outputs |-> {}, measurements |-> <<>>]

\* the measurements run_pipeline substitutes
DefaultMeasurements(height_cm) ==
  [height |-> Int2Rat(height_cm),
   chest_circumference |-> Rat(height_cm * 53, 100),
   waist_circumference |-> Rat(height_cm * 43, 100),
   hip_circumference |-> Rat(height_cm * 50, 100),
   inside_leg_height |-> Rat(height_cm * 45, 100)]

\* what step3_extract_measurements returns when it returns a dict with entries
Extracted(height_cm) ==
  [DefaultMeasurements(height_cm) EXCEPT !.chest_circumference = Rat(height_cm * 55, 100)]

\* the outcomes of a step: its result, None, or an exception; step 3 may
\* also return an empty dict
StepOutcomes(n) ==
  IF n = 3 THEN {"ok", "None", "empty", "raises"} ELSE {"ok", "None", "raises"}

StepDone(n, outcome) == [pipeline EXCEPT !.steps[n] = outcome]

\* except Exception as e: results["error"] = f"Pipeline error: {str(e)}"
PipelineError(n) ==
  pipeline' = [StepDone(n, "raises") EXCEPT !.pc = "returned",
                                           !.results.error = "Pipeline error"]

\* results["error"] = "Step n failed: ..."; return results
StepFailed(n) ==
  pipeline' = [StepDone(n, "None") EXCEPT !.pc = "returned",
                                         !.results.error = <<"Step failed", n>>]

\* the checks of the 4D-Humans directory before the try block
VerifyPaths ==
  /\ pipeline.pc = "paths"
  /\ \E found \in BOOLEAN :
       pipeline' = IF found
                   THEN [pipeline EXCEPT !.pc = "step1", !.results = NewResults]
                   ELSE [pipeline EXCEPT !.pc = "returned",
                                         !.results = [NewResults EXCEPT !.error = "not found"]]
  /\ UNCHANGED <<script_vars, jobs, fit_passports, background, celery>>

\* Step 1: 4D-Humans body extraction
Step1 ==
  /\ pipeline.pc = "step1"
  /\ \E outcome \in StepOutcomes(1) :
       CASE outcome = "raises" -> PipelineError(1)
         [] outcome = "None" -> StepFailed(1)
         [] OTHER ->
              pipeline' = [StepDone(1, "ok") EXCEPT
                             !.pc = "step2",
                             !.results.outputs = {"original_mesh", "smpl_params"}]
  /\ UNCHANGED <<script_vars, jobs, fit_passports, background, celery>>

\* Step 2: T-pose for measurements
Step2 ==
  /\ pipeline.pc = "step2"
  /\ \E outcome \in StepOutcomes(2) :
       CASE outcome = "raises" -> PipelineError(2)
         [] outcome = "None" -> StepFailed(2)
         [] OTHER ->
              pipeline' = [StepDone(2, "ok") EXCEPT
                             !.pc = "step3",
                             !.results.outputs = @ \cup {"tpose_mesh"}]
  /\ UNCHANGED <<script_vars, jobs, fit_passports, background, celery>>

\* Step 3: measurements, the defaults when the step returned nothing, and
\* save_measurements_json; the `try: ... finally:` of
\* step3_extract_measurements has no except clause, so what the measurer
\* raises leaves the step
Step3 ==
  /\ pipeline.pc = "step3"
  /\ \E outcome \in StepOutcomes(3) :
       LET kept == IF outcome = "ok" THEN Extracted(pipeline.height_cm)
                   ELSE DefaultMeasurements(pipeline.height_cm)
       IN CASE outcome = "raises" -> PipelineError(3)
            [] OTHER ->
                 pipeline' = [StepDone(3, outcome) EXCEPT
                                !.pc = "step4",
                                !.results.outputs = @ \cup {"measurements"},
                                !.results.measurements = kept]
  /\ UNCHANGED <<script_vars, jobs, fit_passports, background, celery>>

\* Step 4: A-pose for visualization
Step4 ==
  /\ pipeline.pc = "step4"
  /\ \E outcome \in StepOutcomes(4) :
       CASE outcome = "raises" -> PipelineError(4)
         [] outcome = "None" -> StepFailed(4)
         [] OTHER ->
              pipeline' = [StepDone(4, "ok") EXCEPT
                             !.pc = "step5",
                             !.results.outputs = @ \cup {"apose_mesh"}]
  /\ UNCHANGED <<script_vars, jobs, fit_passports, background, celery>>

\* Step 5: skin colour, or the default colour when the step returned None
Step5 ==
  /\ pipeline.pc = "step5"
  /\ \E outcome \in StepOutcomes(5) :
       CASE outcome = "raises" -> PipelineError(5)
         [] OTHER ->
              pipeline' = [StepDone(5, outcome) EXCEPT
                             !.pc = "step6",
                             !.skin_color = IF outcome = "None" THEN <<180, 140, 120>>
                                            ELSE "sampled",
                             !.results.outputs = @ \cup {"skin_texture"}]
  /\ UNCHANGED <<script_vars, jobs, fit_passports, background, celery>>

\* Step 6: textured GLB, and success
Step6 ==
  /\ pipeline.pc = "step6"
  /\ \E outcome \in StepOutcomes(6) :
       CASE outcome = "raises" -> PipelineError(6)
         [] outcome = "None" -> StepFailed(6)
         [] OTHER ->
              pipeline' = [StepDone(6, "ok") EXCEPT
                             !.pc = "returned",
                             !.results.outputs = @ \cup {"avatar_glb"},
                             !.results.success = TRUE]
  /\ UNCHANGED <<script_vars, jobs, fit_passports, background, celery>>

InitPipeline ==
  /\ entry = "run_pipeline"
  /\ ScriptIdle
  /\ jobs = <<>>
  /\ fit_passports = <<>>
  /\ background = <<>>
  /\ celery = <<>>
  /\ \E height_cm \in PipelineHeights, gender \in PipelineGenders :
       pipeline = [pc |-> "paths", height_cm |-> height_cm, gender |-> gender,
                   results |-> <<>>, skin_color |-> "None",
                   steps |-> [n \in StepNumbers |-> "not_run"]]

NextPipeline ==
  \/ VerifyPaths
  \/ Step1
  \/ Step2
  \/ Step3
  \/ Step4
  \/ Step5
  \/ Step6

SpecPipeline == InitPipeline /\ [][NextPipeline]_vars

----------------------------------------------------------------------------
(* Properties *)

\* the slice an estimator call of the adaptive run builds, recomputed from
\* the array and the landmark the call was given
CallSlice(name) ==
  EstimatorSlice(scaled_vertices, landmarks[name], Policy[name].thick)

\* C1: every estimator call whose slice holds fewer than ten vertices
\* returns None and has evaluated neither a hull nor a width nor a depth
C1_NullBelowMinimum ==
  circ # Unset =>
    \A name \in DOMAIN circ :
      Cardinality(CallSlice(name)) < MinSliceVerts =>
        /\ circ[name].ret = None
        /\ circ[name].evaluated = {}

\* C1 happens: an estimator was called on a slice of one to nine vertices
\* and returned None
C1_Witness ==
  /\ circ # Unset
  /\ \E name \in DOMAIN circ :
       /\ Cardinality(CallSlice(name)) \in 1..(MinSliceVerts - 1)
       /\ circ[name].ret = None

\* C2: when the adaptive run has finished, the measurement set has an entry
\* for each of the five circumferences it was asked for, null or not
C2_EveryCircumferencePresent ==
  (entry = "adaptive" /\ pc = "done") =>
    \A i \in DOMAIN Circumferences :
      CircKey(Circumferences[i]) \in DOMAIN measurements

\* the search window of each landmark that has one of its own
Window ==
  [waist |-> Waist, chest |-> Chest, hip |-> Hip, neck |-> Neck]

AnatWindow ==
  [waist |-> AnatWaist, chest |-> AnatChest, hip |-> AnatHip, neck |-> AnatNeck]

\* no sample of the window W passed `mask.sum() > 10`
Degenerate(V, W) ==
  LET S == SearchSamples(V, W.lo, W.hi, W.n, W.thick)
  IN  \A k \in DOMAIN S : ~S[k].valid

NoValidSlice(V, name) == Degenerate(V, Window[name])

\* C3: when a landmark's window held no valid slice, the finished run has
\* given the landmark its fallback height and reports the measurement
\* taken there as null
C3_FallbackThenNull ==
  (entry = "adaptive" /\ pc = "done") =>
    \A name \in DOMAIN Window :
      NoValidSlice(scaled_vertices, name) =>
        /\ landmarks[name] = AtRatio(scaled_vertices, Window[name].fallback)
        /\ CircKey(name) \in DOMAIN measurements
        /\ measurements[CircKey(name)] = None

\* the array whose landmarks the run has located
Located == IF entry = "adaptive" THEN scaled_vertices ELSE vertices

\* the locator of the named entry point has just returned
JustLocated(e) ==
  /\ entry = e
  /\ pc = IF e = "adaptive" THEN "chest" ELSE "done"

\* low_ratio + (high_ratio - low_ratio) / 2
Midpoint(W) == RAdd(W.lo, RDiv(RSub(W.hi, W.lo), Int2Rat(2)))

\* the fallback ratios as the two locators have them
AdaptiveFallback ==
  [waist |-> Rat(55, 100), chest |-> Rat(80, 100), hip |-> Rat(45, 100),
   neck |-> Rat(90, 100)]
AnatomicalFallback ==
  [waist |-> Rat(60, 100), chest |-> Rat(75, 100), hip |-> Rat(50, 100),
   neck |-> Rat(90, 100)]

\* C4 as stated: a landmark whose window held no valid slice sits at the
\* midpoint of its own window, in both geometry-only locators
C4_FallbackIsWindowMidpoint ==
  /\ JustLocated("adaptive") =>
       \A name \in DOMAIN Window :
         Degenerate(Located, Window[name]) =>
           landmarks[name] = AtRatio(Located, Midpoint(Window[name]))
  /\ JustLocated("anatomical") =>
       \A name \in DOMAIN AnatWindow :
         Degenerate(Located, AnatWindow[name]) =>
           landmarks[name] = AtRatio(Located, Midpoint(AnatWindow[name]))

\* C4 amended: a landmark whose window held no valid slice sits at
\* y_min + r * total_height for a fixed ratio r of its own: 0.55, 0.80,
\* 0.45, 0.90 for waist, chest, hip, neck in find_adaptive_landmarks and
\* 0.60, 0.75, 0.50, 0.90 in find_anatomical_landmarks; r is the midpoint
\* of the window for waist, chest and neck of the former and for hip and
\* neck of the latter only
C4_FallbackIsFixedRatio ==
  /\ JustLocated("adaptive") =>
       \A name \in DOMAIN Window :
         Degenerate(Located, Window[name]) =>
           landmarks[name] = AtRatio(Located, AdaptiveFallback[name])
  /\ JustLocated("anatomical") =>
       \A name \in DOMAIN AnatWindow :
         Degenerate(Located, AnatWindow[name]) =>
           landmarks[name] = AtRatio(Located, AnatomicalFallback[name])
  /\ \A name \in {"waist", "chest", "neck"} :
       AdaptiveFallback[name] = Midpoint(Window[name])
  /\ \A name \in {"hip", "neck"} :
       AnatomicalFallback[name] = Midpoint(AnatWindow[name])

\* C4 happens: the hip window of find_adaptive_landmarks held no valid
\* slice and the hip landmark is at 45% of the height, off the midpoint
C4_Witness ==
  /\ JustLocated("adaptive")
  /\ Degenerate(Located, Window.hip)
  /\ landmarks.hip = AtRatio(Located, Rat(45, 100))
  /\ landmarks.hip # AtRatio(Located, Midpoint(Window.hip))

\* C5: every landmark find_adaptive_landmarks returns lies strictly between
\* the lowest and the highest vertex of the mesh it searched
C5_LandmarksStrictlyInside ==
  JustLocated("adaptive") =>
    \A name \in DOMAIN landmarks :
      /\ RLt(y_min_of(Located), landmarks[name])
      /\ RLt(landmarks[name], y_max_of(Located))

\* the runs that take measurements
MeasurementRun == entry \in {"adaptive", "fix_pose", "multiple_heights"}

AllReads(is_scaled) == \A i \in DOMAIN reads : reads[i].scaled = is_scaled

Calibrated ==
  \/ entry = "adaptive" /\ pc = "landmarks"
  \/ entry = "multiple_heights" /\ pc = "accurate_measure"
  \/ entry = "fix_pose" /\ pc = "cmv_scale" /\ actual_height_cm # NoHeight

\* the calibrated array, in exact arithmetic
CalibratedVertices == IF entry = "fix_pose" THEN vertices ELSE scaled_vertices

\* |x - y| <= y * ulps / 2^MantBits
WithinRounding(x, y, ulps) ==
  RLe(RAbs(RSub(x, y)), RMul(RAbs(y), Rat(ulps, 2^MantBits)))

\* C7 as stated, of the array the doubles hold: its height-axis extent
\* times 100 equals H
C7_ExtentEqualsHeight ==
  Calibrated =>
    mesh_height_cm_fl(fp.scaled_vertices) = Int2Rat(actual_height_cm)

\* C7 amended: the extent of the calibrated mesh in centimetres equals H
\* in exact arithmetic, and as the doubles compute it equals H within
\* rounding (eight units of relative rounding error)
C7_ExtentEqualsHeightWithinRounding ==
  Calibrated =>
    /\ RMul(y_range_of(CalibratedVertices), Int2Rat(CmPerUnit)) = Int2Rat(actual_height_cm)
    /\ WithinRounding(mesh_height_cm_fl(fp.scaled_vertices), Int2Rat(actual_height_cm), 8)

\* C7 happens: a mesh has been calibrated, its exact extent is H
\* centimetres and the extent the doubles hold is off H by rounding
C7_Witness ==
  /\ Calibrated
  /\ RMul(y_range_of(CalibratedVertices), Int2Rat(CmPerUnit)) = Int2Rat(actual_height_cm)
  /\ mesh_height_cm_fl(fp.scaled_vertices) # Int2Rat(actual_height_cm)

\* calculate_measurements_from_vertices has computed its scale factor from
\* the array main had already calibrated to the same height
Recalibrated ==
  /\ entry = "fix_pose" /\ actual_height_cm # NoHeight
  /\ pc \in {"cmv_measure", "done"}

\* C8 as stated, of the doubles: the second scale factor is exactly 1
C8_SecondFactorIsOne ==
  Recalibrated => fp.scale_factor = Int2Rat(1)

\* C8 amended: calibrating a calibrated mesh to the same height again
\* gives the factor 1 and the same vertices in exact arithmetic; the
\* factor the doubles compute is 1 within rounding
C8_SecondFactorIsOneWithinRounding ==
  /\ Recalibrated =>
       /\ scale_factor = Int2Rat(1)
       /\ ScaleVertices(vertices, scale_factor) = vertices
       /\ WithinRounding(fp.scale_factor, Int2Rat(1), 8)
  /\ Calibrated =>
       ScaleFactor(CalibratedVertices, actual_height_cm) = Int2Rat(1)

\* C8 happens: the second factor is 1 exactly and the doubles miss it
C8_Witness ==
  /\ Recalibrated
  /\ scale_factor = Int2Rat(1)
  /\ fp.scale_factor # Int2Rat(1)

\* k times an estimator's result, in closed form: pi*c -> pi*(k*c),
\* pi*(p - sqrt(q)) -> pi*(k*p - sqrt(k^2*q)), and each edge length
\* sqrt(l) -> sqrt(k^2*l); None stays None
ScaleCirc(c, k) ==
  CASE c.kind = "None" -> None
    [] c.kind = "pi_lin" -> PiTimes(RMul(c.c, k))
    [] c.kind = "ramanujan" -> PiRamanujan(RMul(c.p, k), RMul(c.q, RMul(k, k)))
    [] c.kind = "perimeter" ->
         LET L == {RMul(l, RMul(k, k)) : l \in DOMAIN c.sq}
         IN  SumOfRoots([m \in L |-> c.sq[RDiv(m, RMul(k, k))]])

\* the estimator of the named circumference applied to the mesh as loaded,
\* at the level that scaling by scale_factor takes to the landmark
UnscaledEstimate(name) ==
  EstimateRun(Policy[name].method, vertices,
              RDiv(landmarks[name], scale_factor), Policy[name].thick).ret

\* the same comparison as the doubles make it, for the simple-ellipse
\* estimator: the mesh as loaded at a level l, and the scaled mesh
\* the doubles hold at the level k*l, k the scale factor they hold
UnscaledLevelFl(name) == Fl(RDiv(landmarks[name], scale_factor))
UnscaledFl(name) ==
  calculate_circumference_method2_fl(vertices, UnscaledLevelFl(name), Policy[name].thick)
ScaledFl(name) ==
  calculate_circumference_method2_fl(fp.scaled_vertices,
                                     FMul(UnscaledLevelFl(name), fp.scale_factor),
                                     Policy[name].thick)
SameSliceFl(name) ==
  EstimatorSliceFl(vertices, UnscaledLevelFl(name), Policy[name].thick)
    = EstimatorSliceFl(fp.scaled_vertices,
                       FMul(UnscaledLevelFl(name), fp.scale_factor), Policy[name].thick)
SimpleEllipseCalls == {name \in DOMAIN Policy : Policy[name].method = 2}

\* C9 as stated, of the doubles: the simple-ellipse estimate of the scaled
\* mesh is exactly k times the estimate of the mesh as loaded
C9_ScalesExactlyInDoubles ==
  (entry = "adaptive" /\ pc = "done") =>
    \A name \in SimpleEllipseCalls :
      /\ IsNone(UnscaledFl(name)) <=> IsNone(ScaledFl(name))
      /\ ~IsNone(UnscaledFl(name)) =>
           ScaledFl(name).v = FMul(fp.scale_factor, UnscaledFl(name).v)

\* C9 amended: scaling the vertices and the level by k multiplies the
\* result of each of the three estimators by k in exact arithmetic, and
\* None stays None; as the doubles compute it the result is k times the
\* original within rounding, provided rounding has left the same vertices
\* in the slice
C9_ScalesWithinRounding ==
  (entry = "adaptive" /\ pc = "done") =>
    /\ \A name \in DOMAIN circ :
         circ[name].ret = ScaleCirc(UnscaledEstimate(name), scale_factor)
    /\ \A name \in SimpleEllipseCalls :
         (SameSliceFl(name) /\ ~IsNone(UnscaledFl(name))) =>
           /\ ~IsNone(ScaledFl(name))
           /\ WithinRounding(ScaledFl(name).v,
                             RMul(fp.scale_factor, UnscaledFl(name).v), 8)

\* C9 happens: all three estimators have returned a number for the scaled
\* mesh, another call has returned None, and the doubles' simple-ellipse
\* estimate is not exactly k times the unscaled one
C9_Witness ==
  /\ entry = "adaptive" /\ pc = "done"
  /\ \E name \in DOMAIN circ : IsNone(circ[name].ret)
  /\ \A m \in 1..3 :
       \E name \in DOMAIN circ : Policy[name].method = m /\ ~IsNone(circ[name].ret)
  /\ \E name \in SimpleEllipseCalls :
       /\ SameSliceFl(name)
       /\ ~IsNone(UnscaledFl(name))
       /\ ScaledFl(name).v # FMul(fp.scale_factor, UnscaledFl(name).v)

\* the measurements a freshly loaded mesh gives when calibrated to height h
FreshResult(h) ==
  AccurateMeasurements(ScaleVertices(mesh_file, ScaleFactor(mesh_file, h)), h,
                       RMul(y_range_of(mesh_file), Int2Rat(CmPerUnit)),
                       ScaleFactor(mesh_file, h))

IsNaN(r) == r.kind = "ramanujan" /\ RLt(r.q, Zero)

\* pi * (p - sqrt(q)) = pi * c  iff  p - c >= 0 and (p - c)^2 = q
SameValue(r, s) ==
  \/ r = s
  \/ r.kind = "perimeter" /\ s.kind = "perimeter" /\ ValLo(r) = ValHi(s) /\ ValHi(r) = ValLo(s)
  \/ /\ r.kind = "ramanujan" /\ s.kind = "pi_lin"
     /\ RLe(s.c, r.p)
     /\ RMul(RSub(r.p, s.c), RSub(r.p, s.c)) = r.q

\* the calls of the convex-hull estimator the adaptive run has made
HullCalls == {name \in DOMAIN circ : Policy[name].method = 1}

\* the hull construction of the call failed: the slice is large enough and
\* its projected points are collinear
HullFailed(name) ==
  /\ ~TooFew(CallSlice(name))
  /\ HullFails(XZPoints(scaled_vertices, CallSlice(name)))

SquareBox(name) ==
  WidthOf(scaled_vertices, CallSlice(name)) = DepthOf(scaled_vertices, CallSlice(name))

\* C11 as stated: when the hull construction fails the estimator returns a
\* number, the one method 2 (pi * (a + b)) returns for the same slice
C11_HullFailureFallsBackToMethod2 ==
  \A name \in HullCalls :
    HullFailed(name) =>
      /\ ~IsNone(circ[name].ret) /\ ~IsNaN(circ[name].ret)
      /\ SameValue(circ[name].ret,
                   calculate_circumference_method2(scaled_vertices, landmarks[name],
                                                   Policy[name].thick))

\* C11: when the hull construction fails the estimator returns a number, the
\* one method 3 (Ramanujan) returns for the same slice; it is the number of
\* method 2 exactly when the bounding box is square.  The estimator of the
\* joint-based run returns the same number for the same call.
C11_HullFailureFallsBackToRamanujan ==
  \A name \in HullCalls :
    HullFailed(name) =>
      LET V == scaled_vertices
          y == landmarks[name]
          t == Policy[name].thick
      IN  /\ ~IsNone(circ[name].ret) /\ ~IsNaN(circ[name].ret)
          /\ circ[name].ret = calculate_circumference_method3(V, y, t)
          /\ calculate_circumference_from_slice(V, y, t)
               = calculate_circumference_method3(V, y, t)
          /\ SameValue(circ[name].ret, calculate_circumference_method2(V, y, t))
               <=> SquareBox(name)

\* C11 happens: the hip or thigh estimator met a slice of collinear points
\* whose bounding box is not square
C11_Witness ==
  \E name \in HullCalls :
    /\ HullFailed(name)
    /\ ~SquareBox(name)
    /\ "hull" \in circ[name].evaluated
    /\ CircTruthy(circ[name].ret)

\* the bounding box of the slice of a call has zero width or zero depth
FlatBox(name) ==
  \/ WidthOf(scaled_vertices, CallSlice(name)) = Zero
  \/ DepthOf(scaled_vertices, CallSlice(name)) = Zero

\* C12: an estimator whose slice has a bounding box of zero width or zero
\* depth returns None, not zero and not a number made from a zero semi-axis
C12_NullOnFlatBox ==
  \A name \in DOMAIN circ :
    (CallSlice(name) # {} /\ FlatBox(name)) => circ[name].ret = None

\* C13: from a mesh whose height-axis extent is zero the run produces no
\* scale factor, no landmark and no measurement
C13_ZeroHeightAborts ==
  (vertices # Unset /\ y_range_of(vertices) = Zero) =>
    /\ scale_factor = Unset
    /\ landmarks = Unset
    /\ measurements = Unset

\* C14: for a height that is not positive no entry point computes a scale
\* factor, runs a pipeline step or returns a measurement
C14_NonPositiveHeightRejected ==
  (actual_height_cm \in NonPositiveHeights /\ entry \in {"adaptive", "handler", "backend"}) =>
    /\ scale_factor = Unset
    /\ measurements = Unset
    /\ pc \in {"load", "validate", "rejected"}

\* the landmarks dict of a run whose statements ran in a free order
LandmarksDict == [k \in DOMAIN landmarks \ {"knee"} |-> landmarks[k]]

\* a finished free-order run has the landmarks and the measurement set of
\* the run in source order
SameAsSourceOrder ==
  pc = "done" =>
    /\ LandmarksDict = find_adaptive_landmarks(scaled_vertices)
    /\ measurements = extract_measurements_adaptive(vertices, actual_height_cm)

\* C15 as stated: with thigh after hip and knee and torso length after
\* chest and hip, every order of the landmark searches and measurements
\* runs through and gives the measurement set of the source order
C15_AnyOrderSameMeasurements ==
  /\ pc # "KeyError"
  /\ SameAsSourceOrder

\* C15: every such order that also has the crotch search after the hip
\* search gives the measurement set of the source order; the only task that
\* can miss a landmark is the crotch search, on a mesh with no vertex in the
\* centre band, where it reads the hip landmark
C15_AnyOrderWithCrotchAfterHip ==
  /\ SameAsSourceOrder
  /\ pc = "KeyError" =>
       /\ results.task = "crotch"
       /\ "hip" \notin tasks
       /\ CenterBandEmpty(scaled_vertices)

\* C15 happens: a run finished whose statements were not evaluated in source
\* order, the crotch search before the hip search among them
C15_Witness ==
  /\ pc = "landmarks"
  /\ {"crotch", "m_inseam", "neck", "m_neck"} \subseteq tasks
  /\ tasks \cap {"waist", "chest", "hip"} = {}

HullBuilt(name) ==
  /\ ~TooFew(CallSlice(name))
  /\ ~HullFails(XZPoints(scaled_vertices, CallSlice(name)))

\* every projected point of the slice is a corner of the hull
StrictlyConvex(P) == {e[1] : e \in HullEdges(P)} = P

CallSemiAxes(name) ==
  <<SemiAxis(WidthOf(scaled_vertices, CallSlice(name))),
    SemiAxis(DepthOf(scaled_vertices, CallSlice(name)))>>

\* 4 * sqrt(a^2 + b^2), the perimeter of the rhombus inscribed in the box
RhombusPerimeter(ab) ==
  SumOfRoots((RAdd(RMul(ab[1], ab[1]), RMul(ab[2], ab[2])) :> 4))

\* 4 * (a + b), the perimeter of the box
BoxPerimeter(ab) ==
  SumOfRoots((RMul(RAdd(ab[1], ab[2]), RAdd(ab[1], ab[2])) :> 4))

\* C18 as stated: on a slice whose points are in strictly convex position
\* and whose bounding box is not square, the hull perimeter of method 1 is
\* at least the pi * (a + b) of method 2
C18_HullAtLeastSimpleEllipse ==
  \A name \in HullCalls :
    (HullBuilt(name) /\ StrictlyConvex(XZPoints(scaled_vertices, CallSlice(name)))
       /\ ~SquareBox(name)) =>
      ~Below(circ[name].ret,
             calculate_circumference_method2(scaled_vertices, landmarks[name],
                                             Policy[name].thick))

\* C18: the hull perimeter of method 1 lies between 4 * sqrt(a^2 + b^2) and
\* 4 * (a + b); it is at least pi * (a + b) when the hull is the bounding
\* box itself
C18_HullBetweenRhombusAndBox ==
  \A name \in HullCalls :
    HullBuilt(name) =>
      /\ AtLeast(circ[name].ret, RhombusPerimeter(CallSemiAxes(name)))
      /\ AtLeast(BoxPerimeter(CallSemiAxes(name)), circ[name].ret)
      /\ SameValue(circ[name].ret, BoxPerimeter(CallSemiAxes(name))) =>
           AtLeast(circ[name].ret,
                   calculate_circumference_method2(scaled_vertices, landmarks[name],
                                                   Policy[name].thick))

\* C18 happens: method 1 returned the perimeter of a hull whose points are in
\* strictly convex position in a box that is not square, and it is below
\* pi * (a + b)
C18_Witness ==
  \E name \in HullCalls :
    /\ HullBuilt(name)
    /\ StrictlyConvex(XZPoints(scaled_vertices, CallSlice(name)))
    /\ ~SquareBox(name)
    /\ Below(circ[name].ret,
             calculate_circumference_method2(scaled_vertices, landmarks[name],
                                             Policy[name].thick))

\* the joint-based run has computed at least one landmark
JointLandmarkComputed == entry = "smpl_joints" /\ landmarks # Unset

\* the joints of the body multiplied by the factor of the run
CalibratedJoints ==
  ScaleJoints(SmplJoints(mesh_file), ScaleFactor(mesh_file, actual_height_cm))

\* C17: in the joint-based run, once any landmark is computed the vertices
\* and the joints are both the generated ones multiplied by the one scale
\* factor of the run, every landmark level is the level of the scaled
\* joints, every slice was cut from the scaled vertices, and the widths and
\* lengths are distances between scaled joints
C17_JointsScaledWithVertices ==
  JointLandmarkComputed =>
    /\ scale_factor = ScaleFactor(mesh_file, actual_height_cm)
    /\ scale_computations = 1
    /\ vertices = ScaleVertices(mesh_file, scale_factor)
    /\ joints = ScaleJoints(SmplJoints(mesh_file), scale_factor)
    /\ \A name \in DOMAIN landmarks \ {"waist"} :
         landmarks[name] = JointLevel(name, CalibratedJoints)
    /\ "waist" \in DOMAIN landmarks =>
         /\ RLe(CalibratedJoints.pelvis[2], landmarks.waist)
         /\ RLe(landmarks.waist, CalibratedJoints.spine3[2])
    /\ \A i \in DOMAIN reads : reads[i].scaled
    /\ \A k \in DOMAIN JointWidths(joints) \cap DOMAIN measurements :
         measurements[k] = JointWidths(CalibratedJoints)[k]
    /\ \A k \in DOMAIN JointLengths(joints) \cap DOMAIN measurements :
         measurements[k] = JointLengths(CalibratedJoints)[k]

\* C17 happens: a joint-based run whose scale factor is not 1 ended with a
\* chest circumference cut at the level of the scaled shoulder joints and
\* with the widths and lengths stored
C17_Witness ==
  /\ entry = "smpl_joints"
  /\ pc = "done"
  /\ scale_factor # Int2Rat(1)
  /\ {"chest_circumference_cm", "shoulder_width_cm", "torso_length_cm"}
       \subseteq DOMAIN measurements

\* the samples of the window W that passed `mask.sum() > 10`
ValidSamples(V, W) ==
  LET S == SearchSamples(V, W.lo, W.hi, W.n, W.thick)
  IN  {k \in DOMAIN S : S[k].valid}

\* the lowest sampled height whose slice has the least (narrowest) or the
\* greatest (widest) width among the valid samples of the window
ExtremeSample(V, W, narrowest) ==
  LET S == SearchSamples(V, W.lo, W.hi, W.n, W.thick)
      valid == {k \in DOMAIN S : S[k].valid}
      widths == {S[k].width : k \in valid}
      extreme == IF narrowest THEN RMinOf(widths) ELSE RMaxOf(widths)
      first == CHOOSE k \in valid :
                 /\ S[k].width = extreme
                 /\ \A j \in valid : S[j].width = extreme => k <= j
  IN  S[first].y

Narrowest == {"waist", "neck"}

\* C19: after find_adaptive_landmarks, a landmark whose window has a valid
\* sample lies at the lowest sampled height of minimum width (waist, neck)
\* or of maximum width (chest, hip) among the valid samples, and a landmark
\* whose window has none lies at its fallback height
C19_ExtremeAmongValidSamples ==
  JustLocated("adaptive") =>
    \A name \in DOMAIN Window :
      landmarks[name] =
        IF ValidSamples(scaled_vertices, Window[name]) # {}
        THEN ExtremeSample(scaled_vertices, Window[name], name \in Narrowest)
        ELSE AtRatio(scaled_vertices, Window[name].fallback)

\* C20: after find_adaptive_landmarks, when the knee window has a valid
\* sample the thigh landmark is the midpoint of the hip landmark and the
\* knee height the search located
C20_ThighIsMidpointOfHipAndKnee ==
  JustLocated("adaptive") =>
    (ValidSamples(scaled_vertices, Knee) # {} =>
       landmarks.thigh =
         RDiv(RAdd(landmarks.hip, ExtremeSample(scaled_vertices, Knee, TRUE)),
              Int2Rat(2)))

\* the height y lies in the window W of the array V, ends included
InsideWindow(V, W, y) == RLe(AtRatio(V, W.lo), y) /\ RLe(y, AtRatio(V, W.hi))

\* C21: every waist, chest, hip and neck landmark that
\* find_adaptive_landmarks returns lies between the low and the high ratio
\* of its search window, found by search or assigned by fallback
C21_LandmarksInsideWindows ==
  JustLocated("adaptive") =>
    \A name \in DOMAIN Window :
      InsideWindow(scaled_vertices, Window[name], landmarks[name])

\* C21 happens: find_adaptive_landmarks returned one landmark that a search
\* selected and one that the fallback assigned although its window had a
\* valid sample
C21_Witness ==
  /\ JustLocated("adaptive")
  /\ \E name \in DOMAIN Window :
       /\ ValidSamples(scaled_vertices, Window[name]) # {}
       /\ landmarks[name] # AtRatio(scaled_vertices, Window[name].fallback)
  /\ \E name \in DOMAIN Window :
       /\ ValidSamples(scaled_vertices, Window[name]) # {}
       /\ landmarks[name] = AtRatio(scaled_vertices, Window[name].fallback)
       /\ ExtremeSample(scaled_vertices, Window[name], name \in Narrowest)
            # landmarks[name]

\* the height y as a fraction of the total height of V above its floor
FractionOfHeight(V, y) == RDiv(RSub(y, y_min_of(V)), y_range_of(V))

\* the fraction of total height at which the joint-based run places the
\* chest of the body M when it calibrates to height_cm
JointChestFraction(M, height_cm) ==
  LET s == ScaleFactor(M, height_cm)
  IN  FractionOfHeight(ScaleVertices(M, s),
                       JointLevel("chest", ScaleJoints(SmplJoints(M), s)))

\* C22: the chest landmark of the joint-based run sits at the same fraction
\* of total height whatever height the body is calibrated to
C22_ChestFractionSameAtEveryHeight ==
  (entry = "smpl_joints" /\ "chest" \in DOMAIN landmarks) =>
    \A h \in ActualHeights :
      FractionOfHeight(vertices, landmarks.chest) = JointChestFraction(mesh_file, h)

\* the three estimators return a value for the slice of V at level y
EstimatorsReturnValue(V, y, thick) ==
  /\ ~IsNone(calculate_circumference_method1(V, y, thick))
  /\ ~IsNone(calculate_circumference_method2(V, y, thick))
  /\ ~IsNone(calculate_circumference_method3(V, y, thick))

EstimatorsReturnNone(V, y, thick) ==
  /\ IsNone(calculate_circumference_method1(V, y, thick))
  /\ IsNone(calculate_circumference_method2(V, y, thick))
  /\ IsNone(calculate_circumference_method3(V, y, thick))

\* C23: every slice that a search of find_adaptive_landmarks samples counts
\* as valid in the search exactly when the estimators return a value for
\* the same array, level and thickness
C23_SearchValidIffEstimatorValue ==
  JustLocated("adaptive") =>
    \A name \in DOMAIN Window :
      LET W == Window[name]
          S == SearchSamples(scaled_vertices, W.lo, W.hi, W.n, W.thick)
      IN  \A k \in DOMAIN S :
            IF S[k].valid
            THEN EstimatorsReturnValue(scaled_vertices, S[k].y, W.thick)
            ELSE EstimatorsReturnNone(scaled_vertices, S[k].y, W.thick)

\* the measurement set with the metadata field 'calibrated' taken out
WithoutCalibratedFlag(m) ==
  [m EXCEPT !["_metadata"] = [k \in DOMAIN m["_metadata"] \ {"calibrated"} |->
                                m["_metadata"][k]]]

\* the calibration block found a chest circumference within the tolerance
\* of the known one and assigned the chest landmark
CalibrationAssigned ==
  /\ CalibrationTruthy(calibration_measurements)
  /\ "chest_cm" \in DOMAIN calibration_measurements
  /\ \E m \in DOMAIN CalibrationMethods :
       ThicknessLoop(landmarks, scaled_vertices,
                     calibration_measurements["chest_cm"],
                     CalibrationMethods[m], 1) # NoY

StatusMoves == {<<"queued", "processing">>, <<"processing", "completed">>,
                <<"processing", "failed">>}
C25_JobStatusMoves ==
  [][\A job_id \in JobIds :
       /\ job_id \in DOMAIN jobs
            => /\ job_id \in DOMAIN jobs'
               /\ \/ jobs'[job_id].status = jobs[job_id].status
                  \/ <<jobs[job_id].status, jobs'[job_id].status>> \in StatusMoves
       /\ job_id \in DOMAIN jobs' \ DOMAIN jobs
            => jobs'[job_id].status = "queued"]_vars

\* both a completed and a failed job were reached through polls that
\* reported something else before
C25_Witness ==
  /\ jobs # <<>> /\ DOMAIN jobs = JobIds
  /\ jobs["job1"].status = "completed" /\ jobs["job2"].status = "failed"
  /\ At("job1", "done") /\ At("job2", "done")

\* the GPU statuses that end the polling loop
Terminal == {"COMPLETED", "FAILED", "CANCELLED"}

\* C26: every job that create_avatar stored eventually has status completed
\* or failed; the polling loop never starts a 61st pass; and a job whose
\* polls never reported COMPLETED, FAILED or CANCELLED (ERROR every time
\* included) has status failed once process_avatar_job has ended
C26_EveryJobEnds ==
  /\ \A job_id \in JobIds :
       (job_id \in DOMAIN jobs) ~> (/\ job_id \in DOMAIN jobs
                                     /\ jobs[job_id].status \in {"completed", "failed"})
  /\ [](\A job_id \in JobIds :
         /\ background[job_id].attempt < max_attempts
         /\ At(job_id, "done") /\ background[job_id].runpod_status \notin Terminal
              => jobs[job_id].status = "failed")

\* a job that was answered ERROR by the last of its 60 polls has failed with
\* the timeout
C26_Witness ==
  /\ At("job1", "done") /\ background["job1"].runpod_status = "ERROR"
  /\ jobs["job1"].status = "failed"
  /\ jobs["job1"].error = "Avatar creation timed out"

\* the job has ended after update_fit_passport_with_results returned False
UpdateReportedFailure(job_id) ==
  /\ job_id \in DOMAIN jobs
  /\ At(job_id, "done")
  /\ jobs[job_id].error = "Failed to update database"

\* the job has ended after update_fit_passport_with_results raised
UpdateRaised(job_id) ==
  /\ job_id \in DOMAIN jobs
  /\ At(job_id, "done")
  /\ jobs[job_id].error = "update raised"

\* a completed job has the user's row as update_fit_passport_with_results
\* wrote it
CompletedAfterUpdate(job_id) ==
  (job_id \in DOMAIN jobs /\ jobs[job_id].status = "completed")
    => /\ UserOf(job_id) \in DOMAIN fit_passports
       /\ fit_passports[UserOf(job_id)] = "completed"

\* C27: with one job running, a job is completed only after
\* update_fit_passport_with_results succeeded for its user, and when that
\* update reported failure the job has ended as failed and the user's
\* fit-passport status is failed
C27_FailedUpdateSetsPassportFailed ==
  \A job_id \in JobIds :
    /\ CompletedAfterUpdate(job_id)
    /\ UpdateReportedFailure(job_id)
         => /\ jobs[job_id].status = "failed"
            /\ UserOf(job_id) \in DOMAIN fit_passports
            /\ fit_passports[UserOf(job_id)] = "failed"

\* C27 as the code has it: a job is completed only after the update wrote the
\* user's row; when the update reported failure, or raised, the job has ended
\* as failed and the user's status is not completed; a reported failure
\* means that no row matched the user, so the handler's write of failed
\* matched none either
C27_FailedUpdateNeverCompleted ==
  \A job_id \in JobIds :
    /\ CompletedAfterUpdate(job_id)
    /\ UpdateReportedFailure(job_id)
         => /\ jobs[job_id].status = "failed"
            /\ UserOf(job_id) \notin DOMAIN fit_passports
    /\ UpdateRaised(job_id)
         => /\ jobs[job_id].status = "failed"
            /\ UserOf(job_id) \in DOMAIN fit_passports
                 => fit_passports[UserOf(job_id)] \in {"processing", "pending", "failed"}

\* the update was answered COMPLETED by the GPU and reported failure
C27_Witness ==
  /\ UpdateReportedFailure("job1")
  /\ background["job1"].runpod_status = "COMPLETED"

\* both requests were stored as jobs and both coroutines have ended
BothFinished ==
  /\ DOMAIN jobs = JobIds
  /\ \A job_id \in JobIds : At(job_id, "done")

\* one of the two jobs is completed
OneCompleted ==
  \E job_id \in JobIds : jobs[job_id].status = "completed"

\* C28: when two jobs of one user ran concurrently and one of them is
\* completed, the user's fit-passport status is completed once both have
\* finished
C28_CompletedSurvivesOtherJob ==
  (BothFinished /\ OneCompleted) => fit_passports["user1"] = "completed"

\* the task has raised out of its last execution
TaskGaveUp == celery.pc \in {"failed", "raised"}

PipelineReturned == pipeline.pc = "returned" /\ pipeline.steps[1] # "not_run"

Succeeded(n) == pipeline.steps[n] = "ok"
WasRun(n) == pipeline.steps[n] # "not_run"

\* C30: run_pipeline returns success = True exactly when steps 1, 2, 4 and 6
\* all succeeded; when step 3 failed the default measurements were
\* substituted and step 4 was run, and when step 5 failed the default skin
\* colour was substituted and step 6 was run
C30_OnlyFourStepsDecideSuccess ==
  PipelineReturned =>
    /\ pipeline.results.success <=> \A n \in {1, 2, 4, 6} : Succeeded(n)
    /\ (WasRun(3) /\ ~Succeeded(3))
         => /\ "measurements" \in pipeline.results.outputs
            /\ pipeline.results.measurements = DefaultMeasurements(pipeline.height_cm)
            /\ WasRun(4)
    /\ (WasRun(5) /\ ~Succeeded(5))
         => /\ pipeline.skin_color = <<180, 140, 120>>
            /\ WasRun(6)
====
